---- MODULE Spec2Model ----
(***************************************************************************)
(* journal2day1: Apple Journal export -> DayOne archive.                   *)
(*                                                                         *)
(* Strings are sequences of atoms.  An atom is one character, or one word  *)
(* whose inner structure no operation of the program looks into (a month   *)
(* name, a run of digits, a directory name).  A time is [d, s]: whole days  *)
(* since 0001-01-01T00:00:00Z and seconds into that day, so that the zero  *)
(* time.Time is [d |-> 0, s |-> 0].                                        *)
(***************************************************************************)
EXTENDS Integers, Sequences, FiniteSets, TLC

(***************************************************************************)
(* Bounds of the model.                                                    *)
(***************************************************************************)
MaxBlocks == 2
MaxParseBlocks == 3

(***************************************************************************)
(* strings, path/filepath                                                  *)
(***************************************************************************)
HasPrefix(s, p) == Len(p) <= Len(s) /\ SubSeq(s, 1, Len(p)) = p

HasSuffix(s, p) == Len(p) <= Len(s) /\ SubSeq(s, Len(s) - Len(p) + 1, Len(s)) = p

Contains(s, p) == \E i \in 0..(Len(s) - Len(p)) : SubSeq(s, i + 1, i + Len(p)) = p

TrimPrefix(s, p) == IF HasPrefix(s, p) THEN SubSeq(s, Len(p) + 1, Len(s)) ELSE s

IsSpace(a) == a \in {" ", "\n", "\t"}

TrimSpace(s) ==
    LET nonSpace == {i \in 1..Len(s) : ~IsSpace(s[i])}
    IN  IF nonSpace = {} THEN <<>>
        ELSE LET lo == CHOOSE i \in nonSpace : \A j \in nonSpace : i <= j
                 hi == CHOOSE i \in nonSpace : \A j \in nonSpace : j <= i
             IN  SubSeq(s, lo, hi)

RECURSIVE Join(_, _)
Join(parts, sep) ==
    IF parts = <<>> THEN <<>>
    ELSE IF Len(parts) = 1 THEN parts[1]
    ELSE parts[1] \o sep \o Join(Tail(parts), sep)

RECURSIVE Concat(_)
Concat(parts) == IF parts = <<>> THEN <<>> ELSE parts[1] \o Concat(Tail(parts))

lowerTable ==
    [a \in {"A", "B", "JPG", "Jpg", "MOV", "HEIC"} |->
        CASE a = "A" -> "a" [] a = "B" -> "b" [] a = "JPG" -> "jpg" [] a = "Jpg" -> "jpg"
          [] a = "MOV" -> "mov" [] a = "HEIC" -> "heic"]

upperTable ==
    [a \in {"a", "b", "jpg", "Jpg", "mov", "heic"} |->
        CASE a = "a" -> "A" [] a = "b" -> "B" [] a = "jpg" -> "JPG" [] a = "Jpg" -> "JPG"
          [] a = "mov" -> "MOV" [] a = "heic" -> "HEIC"]

ToLower(s) == [i \in 1..Len(s) |-> IF s[i] \in DOMAIN lowerTable THEN lowerTable[s[i]] ELSE s[i]]

ToUpper(s) == [i \in 1..Len(s) |-> IF s[i] \in DOMAIN upperTable THEN upperTable[s[i]] ELSE s[i]]

EqualFold(s, t) == ToLower(s) = ToLower(t)

RECURSIVE ReplaceAll(_, _, _)
ReplaceAll(s, old, new) ==
    IF s = <<>> THEN <<>>
    ELSE (IF s[1] = old THEN new ELSE <<s[1]>>) \o ReplaceAll(Tail(s), old, new)

\* filepath.Base: the part after the last separator.
Base(path) ==
    LET seps == {i \in 1..Len(path) : path[i] = "/"}
    IN  IF seps = {} THEN path
        ELSE SubSeq(path, (CHOOSE i \in seps : \A j \in seps : j <= i) + 1, Len(path))

\* filepath.Ext: the suffix of the last path element that begins at its last dot.
Ext(path) ==
    LET b    == Base(path)
        dots == {i \in 1..Len(b) : b[i] = "."}
    IN  IF dots = {} THEN <<>>
        ELSE SubSeq(b, CHOOSE i \in dots : \A j \in dots : j <= i, Len(b))

(***************************************************************************)
(* time                                                                    *)
(***************************************************************************)
ZeroTime == [d |-> 0, s |-> 0]

IsZero(t) == t = ZeroTime

SecondsPerDay == 24 * 60 * 60

\* Days from 0001-01-01 to y-m-d in the proleptic Gregorian calendar.
DaysFromCivil(y, m, d) ==
    LET yy  == IF m <= 2 THEN y - 1 ELSE y
        era == yy \div 400
        yoe == yy - era * 400
        mp  == (m + 9) % 12
        doy == ((153 * mp + 2) \div 5) + d - 1
        doe == yoe * 365 + (yoe \div 4) - (yoe \div 100) + doy
    IN  era * 146097 + doe - 306

IsLeap(y) == (y % 4 = 0 /\ y % 100 # 0) \/ y % 400 = 0

DaysIn(m, y) ==
    IF m = 2 THEN (IF IsLeap(y) THEN 29 ELSE 28)
    ELSE IF m \in {4, 6, 9, 11} THEN 30 ELSE 31

Date(y, m, d) == [d |-> DaysFromCivil(y, m, d), s |-> 0]

\* A number of seconds as whole days and seconds into the day.
Seconds(n) == [d |-> n \div SecondsPerDay, s |-> n % SecondsPerDay]

\* Time.Add of a whole number of seconds.
AddSeconds(t, n) ==
    LET total == t.s + n
    IN  [d |-> t.d + (total \div SecondsPerDay), s |-> total % SecondsPerDay]

weekdayNames == {"Monday", "Friday"}

monthNames == [a \in {"January", "December"} |-> IF a = "January" THEN 1 ELSE 12]

digits1 == [a \in {"1", "5"} |-> IF a = "1" THEN 1 ELSE 5]

digits2 ==
    [a \in {"01", "05", "12", "13", "15"} |->
        CASE a = "01" -> 1 [] a = "05" -> 5 [] a = "12" -> 12 [] a = "13" -> 13 [] a = "15" -> 15]

digits4 == [a \in {"0001", "2025"} |-> IF a = "0001" THEN 1 ELSE 2025]

\* One layout element against one atom of the value: the field it sets, or
\* no match.  "2" takes one or two digits, "02" and "01" exactly two.
LayoutField(l, a) ==
    CASE l = "Monday"  -> IF a \in weekdayNames THEN [ok |-> TRUE, f |-> "wd", v |-> 0]
                          ELSE [ok |-> FALSE]
      [] l = "January" -> IF a \in DOMAIN monthNames THEN [ok |-> TRUE, f |-> "m", v |-> monthNames[a]]
                          ELSE [ok |-> FALSE]
      [] l = "2"       -> IF a \in DOMAIN digits1 THEN [ok |-> TRUE, f |-> "d", v |-> digits1[a]]
                          ELSE IF a \in DOMAIN digits2 THEN [ok |-> TRUE, f |-> "d", v |-> digits2[a]]
                          ELSE [ok |-> FALSE]
      [] l = "02"      -> IF a \in DOMAIN digits2 THEN [ok |-> TRUE, f |-> "d", v |-> digits2[a]]
                          ELSE [ok |-> FALSE]
      [] l = "01"      -> IF a \in DOMAIN digits2 THEN [ok |-> TRUE, f |-> "m", v |-> digits2[a]]
                          ELSE [ok |-> FALSE]
      [] l = "2006"    -> IF a \in DOMAIN digits4 THEN [ok |-> TRUE, f |-> "y", v |-> digits4[a]]
                          ELSE [ok |-> FALSE]
      [] OTHER         -> IF a = l THEN [ok |-> TRUE, f |-> "lit", v |-> 0] ELSE [ok |-> FALSE]

\* time.Parse(layout, value): [ok, t].  The value must match the layout
\* element by element and name a day that exists.
TimeParse(layout, value) ==
    IF Len(layout) # Len(value) THEN [ok |-> FALSE, t |-> ZeroTime]
    ELSE LET fs == [i \in 1..Len(layout) |-> LayoutField(layout[i], value[i])]
         IN  IF \E i \in 1..Len(fs) : ~fs[i].ok THEN [ok |-> FALSE, t |-> ZeroTime]
             ELSE LET Field(name, dflt) ==
                          IF \E i \in 1..Len(fs) : fs[i].f = name
                          THEN fs[CHOOSE i \in 1..Len(fs) : fs[i].f = name].v
                          ELSE dflt
                      y == Field("y", 1)
                      m == Field("m", 1)
                      d == Field("d", 1)
                  IN  IF m \in 1..12 /\ d \in 1..DaysIn(m, y)
                      THEN [ok |-> TRUE, t |-> Date(y, m, d)]
                      ELSE [ok |-> FALSE, t |-> ZeroTime]

appleCocoaEpoch == Date(2001, 1, 1)

\* A float64 number of seconds, and a time.Duration to whole seconds, are
\* [d, s] as well: d days and s seconds, 0 <= s < SecondsPerDay.
Positive(x) == x.d > 0 \/ (x.d = 0 /\ x.s > 0)

LessEq(x, y) == x.d < y.d \/ (x.d = y.d /\ x.s <= y.s)

\* math.MaxInt64 and math.MinInt64 nanoseconds: 9223372036.854775807 s and
\* -9223372036.854775808 s, to the whole second below.
maxDuration == [d |-> 106751, s |-> 85636]

minDuration == [d |-> -106752, s |-> 763]

\* time.Duration(timestamp * float64(time.Second)): the conversion of a
\* float64 that int64 cannot hold is implementation-dependent; the builds
\* give the minimum (amd64) or the nearest end of the range (arm64).
Duration(x) ==
    IF ~LessEq(x, maxDuration) THEN {minDuration, maxDuration}
    ELSE IF ~LessEq(AddSeconds(minDuration, 1), x) THEN {minDuration}
    ELSE {x}

\* Time.Add of a duration.
Add(t, x) == [d |-> t.d + x.d + ((t.s + x.s) \div SecondsPerDay), s |-> (t.s + x.s) % SecondsPerDay]

\* The instants a call can return: one, unless the duration overflows.
CocoaTimestampToTime(x) == {Add(appleCocoaEpoch, dur) : dur \in Duration(x)}

(***************************************************************************)
(* The export on disk.                                                     *)
(*   Entries item:  [name, isDir, readable, doc]   doc: sequence of nodes  *)
(*   Resources item: [name, readable, bytes, jsonValid, jsonDate]          *)
(*   node: [tag, class, id, text, media]: an element of the document in    *)
(*   pre-order, with the text nodes and the img/video elements below it.   *)
(* Both listings are in os.ReadDir order (sorted by file name).            *)
(***************************************************************************)
dotHTML == <<".", "html">>

dotJSON == <<".", "json">>

Node(tag, class, id, text, media) ==
    [tag |-> tag, class |-> class, id |-> id, text |-> text, media |-> media]

Media(tag, src, sources) == [tag |-> tag, src |-> src, sources |-> sources]

ResFile(name, readable, bytes) ==
    [name |-> name, readable |-> readable, bytes |-> bytes, jsonValid |-> FALSE, jsonDate |-> Seconds(0)]

MetaFile(name, valid, date) ==
    [name |-> name, readable |-> TRUE, bytes |-> <<"{", "}">>, jsonValid |-> valid, jsonDate |-> date]

(***************************************************************************)
(* internal/parser                                                         *)
(***************************************************************************)
getTextContent(n) == Concat(n.text)

formats ==
    << <<"Monday", ",", " ", "2", " ", "January", " ", "2006">>,
       <<"Monday", ",", " ", "02", " ", "January", " ", "2006">>,
       <<"2", " ", "January", " ", "2006">>,
       <<"02", " ", "January", " ", "2006">> >>

parsePageHeaderDate(text) ==
    LET t    == TrimSpace(text)
        hits == {i \in 1..Len(formats) : TimeParse(formats[i], t).ok}
    IN  IF hits = {} THEN ZeroTime
        ELSE TimeParse(formats[CHOOSE i \in hits : \A j \in hits : i <= j], t).t

\* ^(\d{4}-\d{2}-\d{2})_ on the base name, then time.Parse("2006-01-02").
extractDateFromFilename(filePath) ==
    LET base == Base(filePath)
        hit  == /\ Len(base) >= 6
                /\ base[1] \in DOMAIN digits4
                /\ base[2] = "-"
                /\ base[3] \in DOMAIN digits2
                /\ base[4] = "-"
                /\ base[5] \in DOMAIN digits2
                /\ base[6] = "_"
    IN  IF ~hit THEN ZeroTime
        ELSE LET r == TimeParse(<<"2006", "-", "01", "-", "02">>, SubSeq(base, 1, 5))
             IN  IF r.ok THEN r.t ELSE ZeroTime

typeMap ==
    [c \in {"assetType_photo", "assetType_livePhoto", "assetType_video", "assetType_genericMap",
            "assetType_motionActivity", "assetType_audio", "assetType_stateOfMind"} |->
        CASE c = "assetType_photo"          -> "photo"
          [] c = "assetType_livePhoto"      -> "photo"
          [] c = "assetType_video"          -> "video"
          [] c = "assetType_genericMap"     -> "map"
          [] c = "assetType_motionActivity" -> "activity"
          [] c = "assetType_audio"          -> "audio"
          [] c = "assetType_stateOfMind"    -> "stateOfMind"]

\* The loop ranges over a Go map, whose iteration order is unspecified: any
\* marker that occurs in the class attribute can be the one found first.
extractAssetType(class) ==
    LET found == {c \in DOMAIN typeMap : Contains(class, <<c>>)}
    IN  IF found = {} THEN {"unknown"} ELSE {typeMap[c] : c \in found}

extractImgSrc(m) ==
    IF m.src = <<>> \/ Contains(m.src, <<"data:">>) THEN [filePath |-> <<>>, ext |-> <<>>]
    ELSE [filePath |-> m.src, ext |-> TrimPrefix(Ext(m.src), <<".">>)]

findSourceElement(m) == IF m.sources = <<>> THEN <<>> ELSE m.sources[1]

extractVideoSrc(m) ==
    LET src == IF m.src = <<>> THEN findSourceElement(m) ELSE m.src
    IN  IF src = <<>> THEN [filePath |-> <<>>, ext |-> <<>>]
        ELSE [filePath |-> src, ext |-> TrimPrefix(Ext(src), <<".">>)]

extractMediaSrc(m) ==
    CASE m.tag = "img"   -> extractImgSrc(m)
      [] m.tag = "video" -> extractVideoSrc(m)
      [] OTHER           -> [filePath |-> <<>>, ext |-> <<>>]

findMediaSrcInNode(n) ==
    LET hits == {i \in 1..Len(n.media) : extractMediaSrc(n.media[i]).filePath # <<>>}
    IN  IF hits = {} THEN [filePath |-> <<>>, ext |-> <<>>]
        ELSE extractMediaSrc(n.media[CHOOSE i \in hits : \A j \in hits : i <= j])

findResourceFile(res, uuid) ==
    LET hits == {i \in 1..Len(res) :
                    HasPrefix(res[i].name, uuid) /\ ~HasSuffix(res[i].name, dotJSON)}
    IN  IF hits = {} THEN [filePath |-> <<>>, ext |-> <<>>]
        ELSE LET e == res[CHOOSE i \in hits : \A j \in hits : i <= j]
             IN  [filePath |-> <<"..", "/", "Resources", "/">> \o e.name,
                  ext |-> TrimPrefix(Ext(e.name), <<".">>)]

\* The assets a gridItem node can add: none without an id, else one per
\* outcome of extractAssetType.
parseGridItem(res, n) ==
    IF n.id = <<>> THEN {<<>>}
    ELSE LET inNode == findMediaSrcInNode(n)
             found  == IF inNode.filePath = <<>> THEN findResourceFile(res, n.id) ELSE inNode
         IN  { << [ID |-> n.id, Type |-> t, FilePath |-> found.filePath, Extension |-> found.ext] >> :
                   t \in extractAssetType(n.class) }

extractBodyText(n) ==
    LET trimmed == [i \in 1..Len(n.text) |-> TrimSpace(n.text[i])]
    IN  Join(SelectSeq(trimmed, LAMBDA t : t # <<>>), <<"\n">>)

\* processDivElement storing the text of a bodyText block also when it is
\* empty.
processDivElement_clearing(res, n, entry) ==
    CASE Contains(n.class, <<"pageHeader">>) ->
             {[entry EXCEPT !.Date = parsePageHeaderDate(getTextContent(n))]}
      [] Contains(n.class, <<"title">>) ->
             {[entry EXCEPT !.Title = TrimSpace(getTextContent(n))]}
      [] Contains(n.class, <<"gridItem">>) ->
             {[entry EXCEPT !.Assets = @ \o a] : a \in parseGridItem(res, n)}
      [] Contains(n.class, <<"bodyText">>) ->
             {[entry EXCEPT !.Body = extractBodyText(n)]}
      [] OTHER -> {entry}

processDivElement(res, n, entry) ==
    CASE Contains(n.class, <<"pageHeader">>) ->
             {[entry EXCEPT !.Date = parsePageHeaderDate(getTextContent(n))]}
      [] Contains(n.class, <<"title">>) ->
             {[entry EXCEPT !.Title = TrimSpace(getTextContent(n))]}
      [] Contains(n.class, <<"gridItem">>) ->
             {[entry EXCEPT !.Assets = @ \o a] : a \in parseGridItem(res, n)}
      [] Contains(n.class, <<"bodyText">>) ->
             {IF extractBodyText(n) # <<>> THEN [entry EXCEPT !.Body = extractBodyText(n)] ELSE entry}
      [] OTHER -> {entry}

processElement(res, n, entry) ==
    IF n.tag = "div" THEN processDivElement(res, n, entry) ELSE {entry}

\* extractFromNode over the nodes of the document in pre-order: the set of
\* entries the walk can end with.
RECURSIVE extractFromNode(_, _, _)
extractFromNode(res, nodes, entry) ==
    IF nodes = <<>> THEN {entry}
    ELSE UNION {extractFromNode(res, Tail(nodes), e) : e \in processElement(res, nodes[1], entry)}

LoadResourceMeta(res, uuid) ==
    LET hits == {i \in 1..Len(res) : res[i].name = uuid \o dotJSON}
    IN  IF hits = {} THEN [err |-> TRUE, Date |-> Seconds(0)]
        ELSE LET f == res[CHOOSE i \in hits : TRUE]
             IN  IF f.readable /\ f.jsonValid THEN [err |-> FALSE, Date |-> f.jsonDate]
                 ELSE [err |-> TRUE, Date |-> Seconds(0)]

\* The dates extractDateFromAssets can return.
extractDateFromAssets(res, assets) ==
    IF Len(assets) = 0 THEN {ZeroTime}
    ELSE LET meta == LoadResourceMeta(res, assets[1].ID)
         IN  IF meta.err \/ ~Positive(meta.Date) THEN {ZeroTime}
             ELSE CocoaTimestampToTime(meta.Date)

\* The date steps of ParseEntry that follow the walk: the entries they can
\* end with.
resolveDate(res, entry) ==
    LET afterAssets == IF IsZero(entry.Date)
                       THEN {[entry EXCEPT !.Date = t] : t \in extractDateFromAssets(res, entry.Assets)}
                       ELSE {entry}
    IN  {IF IsZero(e1.Date) THEN [e1 EXCEPT !.Date = extractDateFromFilename(e1.FilePath)] ELSE e1 :
            e1 \in afterAssets}

newEntry(filePath) ==
    [Date |-> ZeroTime, Title |-> <<>>, Body |-> <<>>, Assets |-> <<>>, FilePath |-> filePath]

\* ParseEntry: [err, entries]; entries is the set of entries a successful
\* call can return.
ParseEntry(res, filePath, item) ==
    IF ~item.readable THEN [err |-> TRUE, entries |-> {}]
    ELSE [err |-> FALSE,
          entries |-> UNION {resolveDate(res, e) : e \in extractFromNode(res, item.doc, newEntry(filePath))}]

GetResourceFilePath(res, uuid) ==
    LET hits == {i \in 1..Len(res) :
                    HasPrefix(res[i].name, uuid) /\ ~HasSuffix(res[i].name, dotJSON)}
    IN  IF hits = {} THEN <<>>
        ELSE <<"Resources", "/">> \o res[CHOOSE i \in hits : \A j \in hits : i <= j].name

(***************************************************************************)
(* internal/converter: pure parts                                          *)
(***************************************************************************)
journalName == <<"Journal">>

\* Time.UTC().Format(iso8601Format): the text of a whole-second instant.
Format(t) == <<"iso8601", t>>

\* hex digest of the bytes read: one digest per content.
calculateMD5(bytes) == <<"md5">> \o bytes

\* shouldSkipAsset with "map" missing from skipTypes.
shouldSkipAsset_withoutMap(assetType) == assetType \in {"activity", "stateOfMind"}

shouldSkipAsset(assetType) == assetType \in {"map", "activity", "stateOfMind"}

isVideoExtension(ext) == ToLower(ext) \in {<<"mov">>, <<"mp4">>, <<"m4v">>, <<"avi">>}

\* normalizeExtension without the jpg rule.
normalizeExtension_lowercaseOnly(ext) == ToLower(ext)

normalizeExtension(ext) == IF EqualFold(ext, <<"jpg">>) THEN <<"jpeg">> ELSE ToLower(ext)

\* filepath.Join of a directory and a name on a host with separator s.
filepathJoin(s, dir, name) == dir \o <<s>> \o name

\* The outputDirs of createOutputDirs, relative to tmpDir.
outputDirs == [photos |-> <<"photos">>, videos |-> <<"videos">>]

getDestinationPath(s, ext, md5Hash, dirs) ==
    LET normalizedExt == normalizeExtension(ToLower(ext))
    IN  IF isVideoExtension(ext) THEN filepathJoin(s, dirs.videos, md5Hash \o <<".">> \o normalizedExt)
        ELSE filepathJoin(s, dirs.photos, md5Hash \o <<".">> \o normalizedExt)

\* The dates getAssetDate can return.
getAssetDate(res, assetID, fallbackDate) ==
    LET meta == LoadResourceMeta(res, assetID)
    IN  IF meta.err \/ ~Positive(meta.Date) THEN {fallbackDate}
        ELSE {Format(t) : t \in CocoaTimestampToTime(meta.Date)}

createPhoto(id, ext, md5Hash, size, order, date) ==
    [Identifier |-> id, Type |-> normalizeExtension(ext), MD5 |-> md5Hash, FileSize |-> size,
     OrderInEntry |-> order, Date |-> date]

createVideo(id, ext, md5Hash, size, order, date) ==
    [Identifier |-> id, Type |-> normalizeExtension(ext), MD5 |-> md5Hash, FileSize |-> size,
     OrderInEntry |-> order, Date |-> date]

\* buildEntryText emitting the heading also for an empty title.
buildEntryText_headingAlways(entry, refs) ==
    LET p1 == << <<"#", " ">> \o entry.Title >>
        p2 == IF entry.Body # <<>> THEN <<entry.Body>> ELSE <<>>
        p3 == IF Len(refs) > 0 THEN <<Join(refs, <<"\n">>)>> ELSE <<>>
    IN  Join(p1 \o p2 \o p3, <<"\n", "\n">>)

buildEntryText(entry, refs) ==
    LET p1 == IF entry.Title # <<>> THEN << <<"#", " ">> \o entry.Title >> ELSE <<>>
        p2 == IF entry.Body # <<>> THEN <<entry.Body>> ELSE <<>>
        p3 == IF Len(refs) > 0 THEN <<Join(refs, <<"\n">>)>> ELSE <<>>
    IN  Join(p1 \o p2 \o p3, <<"\n", "\n">>)

\* json.MarshalIndent of the export: photos and videos are omitempty.
MarshalEntry(e) ==
    LET base == [uuid |-> e.UUID, creationDate |-> e.CreationDate, modifiedDate |-> e.ModifiedDate,
                 text |-> e.Text, timeZone |-> e.TimeZone]
        withP == IF e.Photos = <<>> THEN base ELSE [k \in DOMAIN base \cup {"photos"} |->
                     IF k = "photos" THEN e.Photos ELSE base[k]]
    IN  IF e.Videos = <<>> THEN withP ELSE [k \in DOMAIN withP \cup {"videos"} |->
                     IF k = "videos" THEN e.Videos ELSE withP[k]]

MarshalIndent(exp) == [metadata |-> [version |-> "1.0"], entries |-> [i \in 1..Len(exp) |-> MarshalEntry(exp[i])]]

\* os.Create / os.WriteFile in the staging tree: the file at path is replaced.
WriteStaged(files, path, bytes) == {f \in files : f.path # path} \cup {[path |-> path, bytes |-> bytes]}

\* Rank of an atom in the byte order of file names; paths compare
\* lexicographically, as filepath.Walk visits them.
alphabet ==
    <<".", "/", "JPG", "Journal", "MOV", "\\", "heic", "jpeg", "jpg", "json", "md5", "mov", "mp4",
      "photos", "videos", "x", "y", "z">>

Rank(a) == IF \E i \in 1..Len(alphabet) : alphabet[i] = a
           THEN CHOOSE i \in 1..Len(alphabet) : alphabet[i] = a
           ELSE Len(alphabet) + 1

RECURSIVE PathLess(_, _)
PathLess(s, t) ==
    IF s = <<>> THEN t # <<>>
    ELSE IF t = <<>> THEN FALSE
    ELSE IF s[1] = t[1] THEN PathLess(Tail(s), Tail(t))
    ELSE Rank(s[1]) < Rank(t[1])

RECURSIVE SetToSortedSeq(_)
SetToSortedSeq(S) ==
    IF S = {} THEN <<>>
    ELSE LET m == CHOOSE x \in S : \A y \in S \ {x} : PathLess(x, y)
         IN  <<m>> \o SetToSortedSeq(S \ {m})

\* The regular files filepath.Walk hands to addFileToZip, in walk order.
WalkFiles(files) == SetToSortedSeq({f.path : f \in files})

(***************************************************************************)
(* State.                                                                  *)
(***************************************************************************)
VARIABLES
    op,          \* the public operation under way: "Convert", "ParseAll", "ParseEntry"
    pc,          \* its position
    run,         \* 1 for the first Convert on this export, 2 for the second
    result,      \* "none" while running, then "ok" or "err"
    hasEntries,  \* <root>/Entries exists and can be listed
    entriesDir,  \* listing of <root>/Entries
    resources,   \* listing of <root>/Resources
    outParent,   \* the parent directory of outputPath exists
    fi,          \* ParseAll: index of the directory item at hand
    entries,     \* ParseAll: entries parsed so far; Convert: the parsed entries
    ni,          \* ParseEntry: index of the node at hand
    pe,          \* ParseEntry: the entry under construction
    tmpDir,      \* "none", "exists" or "removed"
    staging,     \* [dirs, files] under tmpDir
    ei,          \* convertEntries: index of the entry at hand
    ai,          \* processAssets: index of the asset at hand
    cur,         \* convertEntry: the DayOneEntry under construction
    photoRefs,   \* processAssets: placeholder lines so far
    export,      \* dayOneExport.Entries
    outFile,     \* the file at outputPath: [exists, by, members]
    walk,        \* createZipArchive: files still to visit
    clock,       \* wall clock read by time.Now
    uuids,       \* number of uuids handed out by uuid.NewString
    dropped,     \* errors of copyMediaFile that processAsset discarded in this run
    faults,      \* I/O operations of this run that the system failed (disk full, ...)
    prevExport,  \* what the first run produced: [export, faults, dropped]
    onProgress,  \* Converter.onProgress is set
    sep,         \* os.PathSeparator of the host
    timestamp,   \* the argument of CocoaTimestampToTime
    err,         \* the error returned: the chain of wrapped messages, outermost first
    calls,       \* the invocations of onProgress in this run
    instant,     \* the time.Time CocoaTimestampToTime returned
    uuid,        \* the argument of GetResourceFilePath
    resourcePath,\* the path GetResourceFilePath returned
    temp,        \* os.TempDir(): the directories under it, each with its subdirectories and files
    conv         \* the Convert calls under way at the same time, each with its locals

vars == <<op, pc, run, result, entriesDir, resources, outParent, fi, entries, ni, pe, tmpDir,
          staging, ei, ai, cur, photoRefs, export, outFile, walk, clock, uuids, dropped, faults,
          hasEntries, prevExport, onProgress, sep, timestamp, err, calls, instant, uuid,
          resourcePath, temp, conv>>

inputVars == <<op, hasEntries, entriesDir, resources, outParent, onProgress, sep, timestamp, uuid>>

parseVars == <<fi, entries, ni, pe>>

stageVars == <<tmpDir, staging>>

mapVars == <<ei, ai, cur, photoRefs, export, clock, uuids, dropped, faults>>

zipVars == <<outFile, walk>>

overlapVars == <<temp, conv>>

noEntry == newEntry(<<>>)

noCur == [UUID |-> <<>>, CreationDate |-> <<>>, ModifiedDate |-> <<>>, Text |-> <<>>,
          TimeZone |-> "Europe/Sofia", Photos |-> <<>>, Videos |-> <<>>]

noStaging == [dirs |-> {}, files |-> {}]

InitState(o, has, dir, res, parent) ==
    /\ op = o
    /\ hasEntries = has
    /\ faults = {}
    /\ pc = o
    /\ run = 1
    /\ result = "none"
    /\ entriesDir = dir
    /\ resources = res
    /\ outParent = parent
    /\ fi = 1
    /\ entries = <<>>
    /\ ni = 1
    /\ pe = noEntry
    /\ tmpDir = "none"
    /\ staging = noStaging
    /\ ei = 1
    /\ ai = 1
    /\ cur = noCur
    /\ photoRefs = <<>>
    /\ export = <<>>
    /\ outFile = [exists |-> FALSE, by |-> 0, members |-> <<>>]
    /\ walk = <<>>
    /\ clock = 1
    /\ uuids = 0
    /\ dropped = 0
    /\ prevExport = [export |-> <<>>, faults |-> {}, dropped |-> 0]
    /\ err = <<>>
    /\ calls = <<>>
    /\ instant = ZeroTime
    /\ resourcePath = <<>>

\* The host and the configuration of the Converter.
InitHost(cb, s, ts) ==
    /\ onProgress = cb
    /\ sep = s
    /\ timestamp = ts
    /\ uuid = <<>>
    /\ temp = {}
    /\ conv = <<>>

entryPath(name) == <<"Entries", "/">> \o name

\* The error of a failed system call.
sysError == << [msg |-> "errno", arg |-> <<>>] >>

\* errors.Wrap and errors.Wrapf: the message goes in front of the cause.
Wrap(e, msg) == << [msg |-> msg, arg |-> <<>>] >> \o e

Wrapf(e, msg, arg) == << [msg |-> msg, arg |-> arg] >> \o e

\* The error of ParseAll as its caller returns it: Convert wraps it once more.
parseError(e) == IF op = "Convert" THEN Wrap(e, "failed to parse entries") ELSE e

(***************************************************************************)
(* ParseAll                                                                *)
(***************************************************************************)
\* skipItem without the IsDir test.
skipItem_noDirTest(item) == ~HasSuffix(item.name, dotHTML)

\* The test of the ParseAll loop for an item that is not a document.
skipItem(item) == item.isDir \/ ~HasSuffix(item.name, dotHTML)

\* os.ReadDir(entriesDir) of ParseAll.
ReadDir ==
    /\ pc \in {"ParseAll", "Convert"}
    /\ hasEntries
    /\ pc' = "ParseAllLoop"
    /\ fi' = 1
    /\ entries' = <<>>
    /\ UNCHANGED <<run, result, inputVars, ni, pe, stageVars, mapVars, zipVars, prevExport, err, calls, instant, resourcePath, overlapVars>>

ReadDirFail ==
    /\ pc \in {"ParseAll", "Convert"}
    /\ ~hasEntries
    /\ pc' = "done"
    /\ result' = "err"
    /\ err' = parseError(Wrap(sysError, "failed to read entries directory"))
    /\ UNCHANGED <<run, inputVars, parseVars, stageVars, mapVars, zipVars, prevExport, calls, instant, resourcePath, overlapVars>>

ParseAllSkip ==
    /\ pc = "ParseAllLoop"
    /\ fi <= Len(entriesDir)
    /\ skipItem(entriesDir[fi])
    /\ fi' = fi + 1
    /\ UNCHANGED <<pc, run, result, inputVars, entries, ni, pe, stageVars, mapVars, zipVars, prevExport, err, calls, instant, resourcePath, overlapVars>>

ParseAllEntry ==
    /\ pc = "ParseAllLoop"
    /\ fi <= Len(entriesDir)
    /\ ~skipItem(entriesDir[fi])
    /\ LET r == ParseEntry(resources, entryPath(entriesDir[fi].name), entriesDir[fi])
       IN  /\ ~r.err
           /\ \E e \in r.entries : entries' = Append(entries, e)
    /\ fi' = fi + 1
    /\ UNCHANGED <<pc, run, result, inputVars, ni, pe, stageVars, mapVars, zipVars, prevExport, err, calls, instant, resourcePath, overlapVars>>

\* ParseAll going on to the next item when ParseEntry failed.
ParseAllFail_skipping ==
    /\ pc = "ParseAllLoop"
    /\ fi <= Len(entriesDir)
    /\ ~skipItem(entriesDir[fi])
    /\ ParseEntry(resources, entryPath(entriesDir[fi].name), entriesDir[fi]).err
    /\ fi' = fi + 1
    /\ UNCHANGED <<pc, run, result, inputVars, entries, ni, pe, stageVars, mapVars, zipVars,
                   prevExport, err, calls, instant, resourcePath, overlapVars>>

\* ParseEntry failed: ParseAll returns (nil, err), and so does Convert.
ParseAllFail ==
    /\ pc = "ParseAllLoop"
    /\ fi <= Len(entriesDir)
    /\ ~skipItem(entriesDir[fi])
    /\ ParseEntry(resources, entryPath(entriesDir[fi].name), entriesDir[fi]).err
    /\ entries' = <<>>
    /\ pc' = "done"
    /\ result' = "err"
    /\ err' = parseError(Wrapf(Wrap(sysError, "failed to open file"),
                               "failed to parse entry", entriesDir[fi].name))
    /\ UNCHANGED <<run, inputVars, fi, ni, pe, stageVars, mapVars, zipVars, prevExport, calls, instant, resourcePath, overlapVars>>

ParseAllReturn ==
    /\ pc = "ParseAllLoop"
    /\ fi > Len(entriesDir)
    /\ IF op = "Convert"
       THEN pc' = "MkdirTemp" /\ result' = result
       ELSE pc' = "done" /\ result' = "ok"
    /\ UNCHANGED <<run, inputVars, parseVars, stageVars, mapVars, zipVars, prevExport, err, calls, instant, resourcePath, overlapVars>>

(***************************************************************************)
(* ParseEntry, node by node                                                *)
(***************************************************************************)
ParseEntryOpen ==
    /\ pc = "ParseEntry"
    /\ entriesDir[1].readable
    /\ pc' = "extractFromNode"
    /\ ni' = 1
    /\ pe' = newEntry(entryPath(entriesDir[1].name))
    /\ UNCHANGED <<run, result, inputVars, fi, entries, stageVars, mapVars, zipVars, prevExport, err, calls, instant, resourcePath, overlapVars>>

ParseEntryOpenFail ==
    /\ pc = "ParseEntry"
    /\ ~entriesDir[1].readable
    /\ pc' = "done"
    /\ result' = "err"
    /\ err' = Wrap(sysError, "failed to open file")
    /\ UNCHANGED <<run, inputVars, parseVars, stageVars, mapVars, zipVars, prevExport, calls, instant, resourcePath, overlapVars>>

ExtractNode ==
    /\ pc = "extractFromNode"
    /\ ni <= Len(entriesDir[1].doc)
    /\ \E e \in processElement(resources, entriesDir[1].doc[ni], pe) : pe' = e
    /\ ni' = ni + 1
    /\ UNCHANGED <<pc, run, result, inputVars, fi, entries, stageVars, mapVars, zipVars, prevExport, err, calls, instant, resourcePath, overlapVars>>

ParseEntryReturn ==
    /\ pc = "extractFromNode"
    /\ ni > Len(entriesDir[1].doc)
    /\ pe' \in resolveDate(resources, pe)
    /\ pc' = "done"
    /\ result' = "ok"
    /\ UNCHANGED <<run, inputVars, fi, entries, ni, stageVars, mapVars, zipVars, prevExport, err, calls, instant, resourcePath, overlapVars>>

(***************************************************************************)
(* Convert                                                                 *)
(***************************************************************************)
\* A return of Convert that leaves the staging directory behind.
ReturnKeepingTmp(res) ==
    /\ pc' = "done"
    /\ result' = res
    /\ UNCHANGED <<tmpDir, staging, resourcePath, overlapVars>>

\* A return of Convert after "defer os.RemoveAll(tmpDir)" was registered.
ReturnRemovingTmp(res) ==
    /\ pc' = "done"
    /\ result' = res
    /\ tmpDir' = "removed"
    /\ staging' = noStaging

MkdirTemp ==
    /\ pc = "MkdirTemp"
    /\ tmpDir' = "exists"
    /\ staging' = noStaging
    /\ pc' = "createOutputDirs"
    /\ UNCHANGED <<run, result, inputVars, parseVars, mapVars, zipVars, prevExport, err, calls, instant, resourcePath, overlapVars>>

MkdirTempFail ==
    /\ pc = "MkdirTemp"
    /\ faults' = faults \cup {"MkdirTemp"}
    /\ pc' = "done"
    /\ result' = "err"
    /\ err' = Wrap(sysError, "failed to create temp dir")
    /\ UNCHANGED <<run, inputVars, parseVars, stageVars, ei, ai, cur, photoRefs, export, clock,
                   uuids, dropped, zipVars, prevExport, calls, instant, resourcePath, overlapVars>>

createOutputDirs ==
    /\ pc = "createOutputDirs"
    /\ staging' = [staging EXCEPT !.dirs = {"photos", "videos"}]
    /\ pc' = "convertEntries"
    /\ ei' = 1
    /\ export' = <<>>
    /\ UNCHANGED <<run, result, inputVars, parseVars, tmpDir, ai, cur, photoRefs, clock, uuids,
                   dropped, faults, zipVars, prevExport, err, calls, instant, resourcePath, overlapVars>>

\* MkdirAll of photos or of videos fails.
createOutputDirsFail ==
    /\ pc = "createOutputDirs"
    /\ faults' = faults \cup {"MkdirAll"}
    /\ ReturnRemovingTmp("err")
    /\ \E msg \in {"failed to create photos dir", "failed to create videos dir"} :
          err' = Wrap(sysError, msg)
    /\ UNCHANGED <<run, inputVars, parseVars, ei, ai, cur, photoRefs, export, clock, uuids,
                   dropped, zipVars, prevExport, calls, instant, resourcePath, overlapVars>>

\* The head of the loop body of convertEntries, c.onProgress(i+1, total), and
\* convertEntry up to the call of processAssets.  A call is recorded with the
\* number of entries that were mapped when it was made.
BeginEntry ==
    /\ pc = "convertEntries"
    /\ ei <= Len(entries)
    /\ calls' = IF onProgress
                THEN Append(calls, [current |-> ei, total |-> Len(entries), mapped |-> Len(export)])
                ELSE calls
    /\ cur' = [noCur EXCEPT !.UUID = <<"uuid", uuids + 1>>,
                            !.CreationDate = Format(entries[ei].Date),
                            !.ModifiedDate = Format(AddSeconds(Date(2026, 1, 1), clock))]
    /\ uuids' = uuids + 1
    /\ clock' = clock + 1
    /\ ai' = 1
    /\ photoRefs' = <<>>
    /\ pc' = "processAssets"
    /\ UNCHANGED <<run, result, inputVars, parseVars, stageVars, ei, export, dropped, faults,
                   zipVars, prevExport, err, instant, resourcePath, overlapVars>>

asset == entries[ei].Assets[ai]

resourceOf(a) ==
    LET hits == {i \in 1..Len(resources) : <<"Resources", "/">> \o resources[i].name
                                             = GetResourceFilePath(resources, a.ID)}
    IN  resources[CHOOSE i \in hits : TRUE]

ProcessAssetSkip ==
    /\ pc = "processAssets"
    /\ ai <= Len(entries[ei].Assets)
    /\ shouldSkipAsset(asset.Type)
    /\ ai' = ai + 1
    /\ UNCHANGED <<pc, run, result, inputVars, parseVars, stageVars, ei, cur, photoRefs, export,
                   clock, uuids, dropped, faults, zipVars, prevExport, err, calls, instant, resourcePath, overlapVars>>

\* processAsset turning an unresolved asset into a failure of Convert.
ProcessAssetUnresolved_failing ==
    /\ pc = "processAssets"
    /\ ai <= Len(entries[ei].Assets)
    /\ ~shouldSkipAsset(asset.Type)
    /\ GetResourceFilePath(resources, asset.ID) = <<>>
    /\ pc' = "done"
    /\ result' = "err"
    /\ tmpDir' = "removed"
    /\ staging' = noStaging
    /\ err' = Wrap(sysError, "failed to resolve asset")
    /\ UNCHANGED <<run, inputVars, parseVars, mapVars, zipVars, prevExport, calls, instant, resourcePath, overlapVars>>

ProcessAssetUnresolved ==
    /\ pc = "processAssets"
    /\ ai <= Len(entries[ei].Assets)
    /\ ~shouldSkipAsset(asset.Type)
    /\ GetResourceFilePath(resources, asset.ID) = <<>>
    /\ ai' = ai + 1
    /\ UNCHANGED <<pc, run, result, inputVars, parseVars, stageVars, ei, cur, photoRefs, export,
                   clock, uuids, dropped, faults, zipVars, prevExport, err, calls, instant, resourcePath, overlapVars>>

\* copyMediaFile fails at os.Open or while reading: nothing is staged, and
\* processAsset returns (nil, nil, "") as for an unresolved asset.
ProcessAssetOpenFail ==
    /\ pc = "processAssets"
    /\ ai <= Len(entries[ei].Assets)
    /\ ~shouldSkipAsset(asset.Type)
    /\ GetResourceFilePath(resources, asset.ID) # <<>>
    /\ ~resourceOf(asset).readable
    /\ dropped' = dropped + 1
    /\ ai' = ai + 1
    /\ UNCHANGED <<pc, run, result, inputVars, parseVars, stageVars, ei, cur, photoRefs, export,
                   clock, uuids, faults, zipVars, prevExport, err, calls, instant, resourcePath, overlapVars>>

\* copyToFile fails: at os.Create nothing is staged, at io.Copy the
\* destination keeps the bytes written so far.
ProcessAssetCopyFail ==
    /\ pc = "processAssets"
    /\ ai <= Len(entries[ei].Assets)
    /\ ~shouldSkipAsset(asset.Type)
    /\ GetResourceFilePath(resources, asset.ID) # <<>>
    /\ resourceOf(asset).readable
    /\ LET src == resourceOf(asset)
           dst == getDestinationPath(sep, asset.Extension, calculateMD5(src.bytes), outputDirs)
       IN  \/ /\ faults' = faults \cup {"Create"}
              /\ staging' = staging
           \/ /\ faults' = faults \cup {"Copy"}
              /\ \E k \in 0..(Len(src.bytes) - 1) :
                    staging' = [staging EXCEPT !.files = WriteStaged(@, dst, SubSeq(src.bytes, 1, k))]
    /\ dropped' = dropped + 1
    /\ ai' = ai + 1
    /\ UNCHANGED <<pc, run, result, inputVars, parseVars, tmpDir, ei, cur, photoRefs, export,
                   clock, uuids, zipVars, prevExport, err, calls, instant, resourcePath, overlapVars>>

ProcessAsset ==
    /\ pc = "processAssets"
    /\ ai <= Len(entries[ei].Assets)
    /\ ~shouldSkipAsset(asset.Type)
    /\ GetResourceFilePath(resources, asset.ID) # <<>>
    /\ resourceOf(asset).readable
    /\ \E assetDate \in getAssetDate(resources, asset.ID, cur.CreationDate) :
       LET src        == resourceOf(asset)
           md5Hash    == calculateMD5(src.bytes)
           fileSize   == Len(src.bytes)
           dst        == getDestinationPath(sep, asset.Extension, md5Hash, outputDirs)
           order      == ai - 1
           identifier == ToUpper(ReplaceAll(asset.ID, "-", <<>>))
           ext        == ToLower(asset.Extension)
       IN  /\ staging' = [staging EXCEPT !.files = WriteStaged(@, dst, src.bytes)]
           /\ IF isVideoExtension(ext)
              THEN /\ cur' = [cur EXCEPT !.Videos =
                                  Append(@, createVideo(identifier, ext, md5Hash, fileSize, order, assetDate))]
                   /\ photoRefs' = photoRefs
              ELSE /\ cur' = [cur EXCEPT !.Photos =
                                  Append(@, createPhoto(identifier, ext, md5Hash, fileSize, order, assetDate))]
                   /\ photoRefs' = Append(photoRefs, <<"![](dayone-moment://">> \o identifier \o <<")">>)
    /\ ai' = ai + 1
    /\ UNCHANGED <<pc, run, result, inputVars, parseVars, tmpDir, ei, export, clock, uuids,
                   dropped, faults, zipVars, prevExport, err, calls, instant, resourcePath, overlapVars>>

\* The rest of convertEntry and the append in convertEntries.
EndEntry ==
    /\ pc = "processAssets"
    /\ ai > Len(entries[ei].Assets)
    /\ export' = Append(export, [cur EXCEPT !.Text = buildEntryText(entries[ei], photoRefs)])
    /\ ei' = ei + 1
    /\ pc' = "convertEntries"
    /\ UNCHANGED <<run, result, inputVars, parseVars, stageVars, ai, cur, photoRefs, clock, uuids,
                   dropped, faults, zipVars, prevExport, err, calls, instant, resourcePath, overlapVars>>

jsonPath == journalName \o dotJSON

writeJSON ==
    /\ pc = "convertEntries"
    /\ ei > Len(entries)
    /\ staging' = [staging EXCEPT !.files = WriteStaged(@, jsonPath, <<MarshalIndent(export)>>)]
    /\ pc' = "createZipArchive"
    /\ UNCHANGED <<run, result, inputVars, parseVars, tmpDir, mapVars, zipVars, prevExport, err, calls, instant, resourcePath, overlapVars>>

writeJSONFail ==
    /\ pc = "convertEntries"
    /\ ei > Len(entries)
    /\ faults' = faults \cup {"WriteFile"}
    /\ ReturnRemovingTmp("err")
    /\ err' = Wrap(sysError, "failed to write JSON")
    /\ UNCHANGED <<run, inputVars, parseVars, ei, ai, cur, photoRefs, export, clock, uuids,
                   dropped, zipVars, prevExport, calls, instant, resourcePath, overlapVars>>

\* createZipArchive making the missing parent directory of dstPath.
ZipCreate_makingParent ==
    /\ pc = "createZipArchive"
    /\ outFile' = [exists |-> TRUE, by |-> run, members |-> <<>>]
    /\ walk' = WalkFiles(staging.files)
    /\ pc' = "Walk"
    /\ UNCHANGED <<run, result, inputVars, parseVars, stageVars, mapVars, prevExport, err, calls, instant, resourcePath, overlapVars>>

\* os.Create(dstPath): a new, empty file replaces what was there.
ZipCreate ==
    /\ pc = "createZipArchive"
    /\ outParent
    /\ outFile' = [exists |-> TRUE, by |-> run, members |-> <<>>]
    /\ walk' = WalkFiles(staging.files)
    /\ pc' = "Walk"
    /\ UNCHANGED <<run, result, inputVars, parseVars, stageVars, mapVars, prevExport, err, calls, instant, resourcePath, overlapVars>>

ZipCreateFail ==
    /\ pc = "createZipArchive"
    /\ IF outParent THEN faults' = faults \cup {"CreateZip"} ELSE faults' = faults
    /\ ReturnRemovingTmp("err")
    /\ err' = Wrap(sysError, "failed to create ZIP file")
    /\ UNCHANGED <<run, inputVars, parseVars, ei, ai, cur, photoRefs, export, clock, uuids,
                   dropped, zipVars, prevExport, calls, instant, resourcePath, overlapVars>>

stagedBytes(path) == (CHOOSE f \in staging.files : f.path = path).bytes

addFileToZip ==
    /\ pc = "Walk"
    /\ walk # <<>>
    /\ outFile' = [outFile EXCEPT !.members = Append(@, [name |-> walk[1], bytes |-> stagedBytes(walk[1])])]
    /\ walk' = Tail(walk)
    /\ UNCHANGED <<pc, run, result, inputVars, parseVars, stageVars, mapVars, prevExport, err, calls, instant, resourcePath, overlapVars>>

\* addFileToZip returns an error: the walk stops, the deferred Close calls
\* finish the file that os.Create made, and Convert returns the error.
addFileToZipFail ==
    /\ pc = "Walk"
    /\ walk # <<>>
    /\ faults' = faults \cup {"WriteZip"}
    /\ ReturnRemovingTmp("err")
    /\ \E msg \in {"failed to create ZIP header", "failed to create ZIP entry",
                    "failed to open file for ZIP", "failed to write to ZIP"} :
          err' = Wrap(sysError, msg)
    /\ UNCHANGED <<run, inputVars, parseVars, ei, ai, cur, photoRefs, export, clock, uuids,
                   dropped, zipVars, prevExport, calls, instant, resourcePath, overlapVars>>

ConvertReturn ==
    /\ pc = "Walk"
    /\ walk = <<>>
    /\ ReturnRemovingTmp("ok")
    /\ UNCHANGED <<run, inputVars, parseVars, mapVars, zipVars, prevExport, err, calls, instant, resourcePath, overlapVars>>

\* The caller runs Convert a second time on the same export, after a first
\* run that no I/O failure disturbed: the locals of the first call are gone,
\* the file at outputPath stays.
ConvertAgain ==
    /\ op = "Convert"
    /\ pc = "done"
    /\ result = "ok"
    /\ run = 1
    /\ faults = {}
    /\ run' = 2
    /\ prevExport' = [export |-> export, faults |-> faults, dropped |-> dropped]
    /\ pc' = "Convert"
    /\ result' = "none"
    /\ fi' = 1
    /\ entries' = <<>>
    /\ tmpDir' = "none"
    /\ ei' = 1
    /\ ai' = 1
    /\ cur' = noCur
    /\ photoRefs' = <<>>
    /\ export' = <<>>
    /\ walk' = <<>>
    /\ dropped' = 0
    /\ faults' = {}
    /\ err' = <<>>
    /\ calls' = <<>>
    /\ UNCHANGED <<inputVars, ni, pe, staging, outFile, clock, uuids, instant, resourcePath, overlapVars>>

(***************************************************************************)
(* Exports the runs start from.                                            *)
(***************************************************************************)
idA == <<"a", "-", "1">>

idB == <<"b">>

Item(name, isDir, readable, doc) == [name |-> name, isDir |-> isDir, readable |-> readable, doc |-> doc]

datedName == <<"2025", "-", "12", "-", "15", "_", "e", ".", "html">>

plainName == <<"f", ".", "html">>

lastName == <<"w", ".", "html">>

headerGood == Node("div", <<"pageHeader">>, <<>>,
                   << <<"\n", "Monday", ",", " ", "15", " ", "December", " ", "2025", "\n">> >>, <<>>)

headerGood2 == Node("div", <<"pageHeader">>, <<>>, << <<"5", " ", "January", " ", "2025">> >>, <<>>)

headerBad == Node("div", <<"pageHeader">>, <<>>, << <<"Notes">> >>, <<>>)

titleNode == Node("div", <<"title">>, <<>>, << <<" ">>, <<"T">> >>, <<>>)

bodyEmpty == Node("div", <<"bodyText">>, <<>>, << <<"\n">> >>, <<>>)

bodyFull == Node("div", <<"bodyText">>, <<>>, << <<" ", "B", " ">>, <<"\n">>, <<"C">> >>, <<>>)

paraP2 == Node("p", <<"p2">>, <<>>, << <<"P">> >>, <<>>)

paraP2b == Node("p", <<"p2">>, <<>>, << <<"Q">> >>, <<>>)

paraP2Empty == Node("p", <<"p2">>, <<>>, <<>>, <<>>)

paraP1 == Node("p", <<"p1">>, <<>>, << <<"I">> >>, <<>>)

Grid(id, markers) == Node("div", <<"gridItem">> \o markers, id, <<>>, <<>>)

GridImg(id, markers, src) == Node("div", <<"gridItem">> \o markers, id, <<>>, <<Media("img", src, <<>>)>>)

srcA == <<"..", "/", "Resources", "/">> \o idA \o <<".", "jpg">>

fileA == ResFile(idA \o <<".", "jpg">>, TRUE, <<"x">>)

fileALocked == ResFile(idA \o <<".", "jpg">>, FALSE, <<"x">>)

fileAUpper == ResFile(idA \o <<".", "JPG">>, TRUE, <<"x">>)

fileAMixed == ResFile(idA \o <<".", "Jpg">>, TRUE, <<"x">>)

fileAHeic == ResFile(idA \o <<".", "HEIC">>, TRUE, <<"x">>)

fileB == ResFile(idB \o <<".", "mov">>, TRUE, <<"y">>)

fileBUpper == ResFile(idB \o <<".", "MOV">>, TRUE, <<"y">>)

fileBmp4 == ResFile(idB \o <<".", "mp4">>, TRUE, <<"y">>)

metaA == MetaFile(idA \o dotJSON, TRUE, Seconds(100))

metaAZero == MetaFile(idA \o dotJSON, TRUE, Seconds(0))

metaABroken == MetaFile(idA \o dotJSON, FALSE, Seconds(0))

\* Ids that differ from idA in a dash or in letter case only, and an id
\* that idA begins with; their files, in os.ReadDir order, are A-1.jpg,
\* a-1.jpg, a.jpg, a1.jpg.
idA1 == <<"a", "1">>

idAUpper == <<"A", "-", "1">>

idPrefix == <<"a">>

fileA1 == ResFile(idA1 \o <<".", "jpg">>, TRUE, <<"z">>)

fileAUpperId == ResFile(idAUpper \o <<".", "jpg">>, TRUE, <<"x", "y">>)

filePrefix == ResFile(idPrefix \o <<".", "jpg">>, TRUE, <<"y">>)

srcBjpg == <<"..", "/", "Resources", "/">> \o idB \o <<".", "jpg">>

\* Documents whose blocks name ids that are close to each other, or a
\* source that is not the file the id resolves to.
AliasDocs ==
    { <<Grid(idA, <<"assetType_photo">>), Grid(idA1, <<"assetType_photo">>)>>,
      <<Grid(idA, <<"assetType_photo">>), Grid(idAUpper, <<"assetType_photo">>)>>,
      <<Grid(idPrefix, <<"assetType_photo">>), Grid(idA, <<"assetType_photo">>)>>,
      <<GridImg(idA, <<"assetType_photo">>, srcA)>>,
      <<GridImg(idB, <<"assetType_photo">>, srcBjpg)>>,
      <<Node("div", <<"gridItem", "assetType_video">>, idB, <<>>, <<Media("video", srcBjpg, <<>>)>>)>> }

AliasResources ==
    { <<fileAUpperId, fileA, filePrefix, fileA1>>, <<fileAHeic, fileA>>, <<fileB>> }

\* All sequences over S of length at most n.
RECURSIVE SeqsUpTo(_, _)
SeqsUpTo(S, n) ==
    IF n = 0 THEN {<<>>}
    ELSE LET shorter == SeqsUpTo(S, n - 1)
         IN  shorter \cup {Append(q, x) : q \in {r \in shorter : Len(r) = n - 1}, x \in S}

ConvertNodes ==
    { GridImg(idA, <<"assetType_photo">>, srcA),
      Grid(idA, <<"assetType_genericMap">>),
      Grid(idA, <<"assetType_motionActivity">>),
      Grid(idA, <<"assetType_stateOfMind">>),
      Grid(idA, <<"assetType_photo", "assetType_genericMap">>),
      Grid(idB, <<"assetType_video">>),
      Grid(idB, <<>>),
      titleNode }

ConvertResources ==
    { <<>>, <<fileA>>, <<fileA, metaA, fileB>>, <<fileALocked, fileB>> }

\* Resource stores whose file names carry extensions in several letter cases.
ExtensionResources ==
    { <<fileAUpper, fileBUpper>>, <<fileAMixed>>, <<fileAHeic, fileB>>, <<fileA, fileBmp4>> }

InitConvert ==
    \/ \E doc \in SeqsUpTo(ConvertNodes, MaxBlocks), res \in ConvertResources :
          /\ InitState("Convert", TRUE, <<Item(datedName, FALSE, TRUE, doc)>>, res, TRUE)
          /\ InitHost(TRUE, "/", Seconds(0))
    \/ \E doc \in {<<>>, <<GridImg(idA, <<"assetType_photo">>, srcA)>>}, res \in {<<>>, <<fileA>>},
          second \in {Item(plainName, FALSE, TRUE, <<titleNode, Grid(idB, <<"assetType_video">>)>>),
                      Item(plainName, FALSE, FALSE, <<>>),
                      Item(plainName, TRUE, TRUE, <<>>)},
          parent \in BOOLEAN :
          /\ InitState("Convert", TRUE, <<Item(datedName, FALSE, TRUE, doc), second>>, res, parent)
          /\ InitHost(TRUE, "/", Seconds(0))
    \/ \E res \in ExtensionResources,
          doc \in {<<Grid(idA, <<"assetType_photo">>)>>,
                    <<Grid(idB, <<"assetType_video">>), Grid(idA, <<"assetType_photo">>)>>},
          s \in {"/", "\\"} :
          /\ InitState("Convert", TRUE, <<Item(datedName, FALSE, TRUE, doc)>>, res, TRUE)
          /\ InitHost(TRUE, s, Seconds(0))
    \/ \E mid, cb \in BOOLEAN :
          /\ InitState("Convert", TRUE,
                       <<Item(datedName, FALSE, TRUE,
                              <<titleNode, bodyFull, GridImg(idA, <<"assetType_photo">>, srcA)>>),
                         Item(plainName, FALSE, mid, <<>>),
                         Item(lastName, FALSE, TRUE, <<bodyFull>>)>>, <<fileA>>, TRUE)
          /\ InitHost(cb, "/", Seconds(0))
    \/ \E doc \in AliasDocs, res \in AliasResources :
          /\ InitState("Convert", TRUE, <<Item(datedName, FALSE, TRUE, doc)>>, res, TRUE)
          /\ InitHost(FALSE, "/", Seconds(0))
    \/ InitState("Convert", FALSE, <<>>, <<>>, TRUE) /\ InitHost(TRUE, "/", Seconds(0))

NextConvert ==
    \/ ReadDir \/ ReadDirFail \/ ParseAllSkip \/ ParseAllEntry \/ ParseAllFail \/ ParseAllReturn
    \/ MkdirTemp \/ MkdirTempFail \/ createOutputDirs \/ createOutputDirsFail
    \/ BeginEntry \/ ProcessAssetSkip \/ ProcessAssetUnresolved \/ ProcessAssetOpenFail
    \/ ProcessAssetCopyFail \/ ProcessAsset \/ EndEntry
    \/ writeJSON \/ writeJSONFail \/ ZipCreate \/ ZipCreateFail
    \/ addFileToZip \/ addFileToZipFail \/ ConvertReturn \/ ConvertAgain

Spec == InitConvert /\ [][NextConvert]_vars

ParseNodes ==
    { headerGood, headerGood2, headerBad, titleNode, bodyEmpty, bodyFull,
      paraP2, paraP2b, paraP2Empty, paraP1, Grid(idA, <<"assetType_photo">>) }

ParseResources == { <<>>, <<fileA, metaA>>, <<fileA, metaAZero>>, <<fileA, metaABroken>> }

InitParseEntry ==
    \/ \E doc \in SeqsUpTo(ParseNodes, MaxParseBlocks), res \in ParseResources,
          name \in {datedName, plainName} :
          /\ InitState("ParseEntry", TRUE, <<Item(name, FALSE, TRUE, doc)>>, res, TRUE)
          /\ InitHost(FALSE, "/", Seconds(0))
    \/ /\ InitState("ParseEntry", TRUE, <<Item(plainName, FALSE, FALSE, <<>>)>>, <<>>, TRUE)
       /\ InitHost(FALSE, "/", Seconds(0))

NextParseEntry == ParseEntryOpen \/ ParseEntryOpenFail \/ ExtractNode \/ ParseEntryReturn

SpecParseEntry == InitParseEntry /\ [][NextParseEntry]_vars

MaxItems == 4

dirName == <<"d", ".", "html">>

textName == <<"n", ".", "txt">>

lockedName == <<"u", ".", "html">>

backupName == <<"v", ".", "html", ".", "bak">>

\* The items an Entries directory is filled from, in os.ReadDir order.
listingPool ==
    << Item(datedName, FALSE, TRUE, <<headerGood, titleNode>>),
       Item(dirName, TRUE, TRUE, <<>>),
       Item(plainName, FALSE, TRUE, <<bodyFull>>),
       Item(textName, FALSE, TRUE, <<titleNode>>),
       Item(lockedName, FALSE, FALSE, <<>>),
       Item(backupName, FALSE, TRUE, <<titleNode>>) >>

RECURSIVE Pick(_, _)
Pick(pool, keep) ==
    IF pool = <<>> THEN <<>>
    ELSE (IF Len(pool) \in keep THEN <<pool[Len(pool)]>> ELSE <<>>)
         \o Pick(SubSeq(pool, 1, Len(pool) - 1), keep)

Reverse(q) == [i \in 1..Len(q) |-> q[Len(q) - i + 1]]

Listings == {Reverse(Pick(listingPool, keep)) :
                keep \in {k \in SUBSET (1..Len(listingPool)) : Cardinality(k) <= MaxItems}}

InitParseAll ==
    \/ \E dir \in Listings :
          InitState("ParseAll", TRUE, dir, <<>>, TRUE) /\ InitHost(FALSE, "/", Seconds(0))
    \/ InitState("ParseAll", FALSE, <<>>, <<>>, TRUE) /\ InitHost(FALSE, "/", Seconds(0))

NextParseAll ==
    ReadDir \/ ReadDirFail \/ ParseAllSkip \/ ParseAllEntry \/ ParseAllFail \/ ParseAllReturn

SpecParseAll == InitParseAll /\ [][NextParseAll]_vars

MaxOffset == 8

\* Offsets on both sides of the epoch, in steps of 20000 days (some 55
\* years), at several seconds of the day, and the ends of the range of
\* time.Duration with their neighbours.
Timestamps ==
    {[d |-> k * 20000, s |-> x] : k \in (0 - MaxOffset)..MaxOffset, x \in {0, 1, 763, 85636, 86399}}
    \cup {maxDuration, AddSeconds(maxDuration, 1), minDuration, AddSeconds(minDuration, 1),
          AddSeconds(minDuration, 0 - 1)}

InitTimestamp ==
    \E x \in Timestamps :
        /\ InitState("CocoaTimestampToTime", TRUE, <<>>, <<>>, TRUE)
        /\ InitHost(FALSE, "/", x)

\* One call of CocoaTimestampToTime.
ConvertTimestamp ==
    /\ pc = "CocoaTimestampToTime"
    /\ instant' \in CocoaTimestampToTime(timestamp)
    /\ pc' = "done"
    /\ result' = "ok"
    /\ UNCHANGED <<run, inputVars, parseVars, stageVars, mapVars, zipVars, prevExport, err, calls, resourcePath, overlapVars>>

NextTimestamp == ConvertTimestamp

SpecTimestamp == InitTimestamp /\ [][NextTimestamp]_vars

MaxGridBlocks == 2

srcAUpper == <<"..", "/", "Resources", "/">> \o idA \o <<".", "JPG">>

srcBUpper == <<"..", "/", "Resources", "/">> \o idB \o <<".", "MOV">>

\* A block whose class attribute carries the marker of another case of
\* processDivElement next to gridItem.
GridMixed(id, other) == Node("div", <<other, " ", "gridItem", " ", "assetType_photo">>, id, << <<"Notes">> >>, <<>>)

GridVideo(id, markers, source) ==
    Node("div", <<"gridItem">> \o markers, id, <<>>, <<Media("video", <<>>, <<source>>)>>)

\* The gridItem blocks the documents of SpecGridItems are made of.
GridNodes ==
    { Grid(idA, <<"assetType_photo">>),
      Grid(idA, <<"assetType_video", "assetType_photo">>),
      Grid(idB, <<"assetType_stateOfMind", "assetType_audio">>),
      Grid(idA, <<"assetType_livePhoto", "assetType_photo">>),
      Grid(idB, <<>>),
      Grid(<<>>, <<"assetType_photo">>),
      GridMixed(idA, "pageHeader"),
      GridMixed(idB, "title"),
      GridImg(idA, <<"assetType_photo">>, srcAUpper),
      GridVideo(idB, <<"assetType_video">>, srcBUpper) }

GridResources == { <<>>, <<fileA, fileB>>, <<fileAUpper, fileBUpper>> }

InitGridItems ==
    \/ \E doc \in SeqsUpTo(GridNodes, MaxGridBlocks), res \in GridResources :
          /\ InitState("ParseEntry", TRUE, <<Item(plainName, FALSE, TRUE, doc)>>, res, TRUE)
          /\ InitHost(FALSE, "/", Seconds(0))
    \/ /\ InitState("ParseEntry", TRUE, <<Item(plainName, FALSE, FALSE, <<>>)>>, <<>>, TRUE)
       /\ InitHost(FALSE, "/", Seconds(0))

SpecGridItems == InitGridItems /\ [][NextParseEntry]_vars

MaxBodyBlocks == 3

bodyOther == Node("div", <<"bodyText">>, <<>>, << <<"D">> >>, <<>>)

bodyInner == Node("div", <<"entry", " ", "bodyText">>, <<>>, << <<"\t">>, <<" ", "F">> >>, <<>>)

bodyNoText == Node("div", <<"bodyText">>, <<>>, <<>>, <<>>)

spanBody == Node("span", <<"bodyText">>, <<>>, << <<"S">> >>, <<>>)

titleBody == Node("div", <<"title", " ", "bodyText">>, <<>>, << <<"Z">> >>, <<>>)

\* The blocks the documents of SpecBodyText are made of.
BodyNodes ==
    { bodyEmpty, bodyFull, bodyOther, bodyInner, bodyNoText, spanBody, titleBody, titleNode, paraP2 }

InitBodyText ==
    \/ \E doc \in SeqsUpTo(BodyNodes, MaxBodyBlocks) :
          /\ InitState("ParseEntry", TRUE, <<Item(plainName, FALSE, TRUE, doc)>>, <<>>, TRUE)
          /\ InitHost(FALSE, "/", Seconds(0))
    \/ /\ InitState("ParseEntry", TRUE, <<Item(plainName, FALSE, FALSE, <<>>)>>, <<>>, TRUE)
       /\ InitHost(FALSE, "/", Seconds(0))

SpecBodyText == InitBodyText /\ [][NextParseEntry]_vars

MaxFiles == 3

fileA2 == ResFile(idA \o <<"-", "2", ".", "jpg">>, TRUE, <<"x", "z">>)

\* The files a Resources directory is filled from, in os.ReadDir order:
\* A-1.jpg, a-1-2.jpg, a-1.jpg, a-1.json, a.jpg, a1.jpg, b.mov.
resourcePool == <<fileAUpperId, fileA2, fileA, metaA, filePrefix, fileA1, fileB>>

ResourceListings ==
    {Reverse(Pick(resourcePool, keep)) :
        keep \in {k \in SUBSET (1..Len(resourcePool)) : Cardinality(k) <= MaxFiles}}

Uuids == {idA, idAUpper, idA1, idPrefix, idB}

InitResolve ==
    \E res \in ResourceListings, id \in Uuids :
        /\ InitState("GetResourceFilePath", TRUE, <<>>, res, TRUE)
        /\ onProgress = FALSE
        /\ sep = "/"
        /\ timestamp = Seconds(0)
        /\ uuid = id
        /\ temp = {}
        /\ conv = <<>>

\* One call of GetResourceFilePath.
Resolve ==
    /\ pc = "GetResourceFilePath"
    /\ resourcePath' = GetResourceFilePath(resources, uuid)
    /\ pc' = "done"
    /\ result' = "ok"
    /\ UNCHANGED <<run, inputVars, parseVars, stageVars, mapVars, zipVars, prevExport, err, calls,
                   instant, overlapVars>>

\* os.ReadDir of the Resources directory fails: the call returns "".
ResolveReadDirFail ==
    /\ pc = "GetResourceFilePath"
    /\ resourcePath' = <<>>
    /\ faults' = faults \cup {"ReadDir"}
    /\ pc' = "done"
    /\ result' = "ok"
    /\ UNCHANGED <<run, inputVars, parseVars, stageVars, ei, ai, cur, photoRefs, export, clock,
                   uuids, dropped, zipVars, prevExport, err, calls, instant, overlapVars>>

NextResolve == Resolve \/ ResolveReadDirFail

SpecResolve == InitResolve /\ [][NextResolve]_vars

(***************************************************************************)
(* Convert calls that overlap in time.  Each call has its own locals; the  *)
(* directories under os.TempDir() are shared, and an operation on a path   *)
(* acts on whatever directory bears the name.  A directory is [name, by,   *)
(* dirs, files], by being the call whose MkdirTemp made it (0: it was      *)
(* there before).                                                          *)
(***************************************************************************)
MaxMedia == 1

Calls == {1, 2}

\* The names os.MkdirTemp("", "journal2day1-*") can make up.
tempNames == {"journal2day1-1", "journal2day1-2", "journal2day1-3"}

\* A directory an earlier process left behind.
leftover == [name |-> "journal2day1-1", by |-> 0, dirs |-> {"photos", "videos"},
             files |-> {<<"photos", "/", "x">>}]

\* The media files an export gives, by the name they are staged under.
mediaPaths == << <<"photos", "/", "x">>, <<"videos", "/", "y">>, <<"photos", "/", "z">> >>

newCall(n) ==
    [pc |-> "Convert", tmpDir |-> "none", todo |-> SubSeq(mediaPaths, 1, n), made |-> {},
     written |-> {}, walk |-> <<>>, members |-> <<>>, result |-> "none", accesses |-> {}]

InitOverlap ==
    \E n1, n2 \in 0..MaxMedia, old \in BOOLEAN :
        /\ InitState("Overlap", TRUE, <<>>, <<>>, TRUE)
        /\ onProgress = FALSE
        /\ sep = "/"
        /\ timestamp = Seconds(0)
        /\ uuid = <<>>
        /\ temp = IF old THEN {leftover} ELSE {}
        /\ conv = <<newCall(n1), newCall(n2)>>

callFrame == <<pc, run, result, inputVars, parseVars, stageVars, mapVars, zipVars, prevExport, err,
               calls, instant, resourcePath>>

\* The directory that bears the name of the call's tmpDir, if there is one.
dirOf(c) == {d \in temp : d.name = conv[c].tmpDir}

\* The staging directories of the other calls that have one at the moment.
othersLive(c) ==
    {conv[o].tmpDir : o \in {x \in Calls \ {c} : conv[x].tmpDir # "none" /\ conv[x].pc # "done"}}

\* The record of one operation of call c on a path under its tmpDir.
access(c, kind) ==
    {[kind |-> kind, dir |-> conv[c].tmpDir, by |-> d.by, others |-> othersLive(c)] : d \in dirOf(c)}

\* The directories after an operation that changes the one named name.
update(name, change(_)) == {IF d.name = name THEN change(d) ELSE d : d \in temp}

\* c.parser.ParseAll(): the staging directory is not yet made.
CallParseAll(c) ==
    /\ conv[c].pc = "Convert"
    /\ \/ conv' = [conv EXCEPT ![c].pc = "MkdirTemp"]
       \/ conv' = [conv EXCEPT ![c].pc = "done", ![c].result = "err"]
    /\ UNCHANGED <<temp, callFrame>>

\* os.MkdirTemp taking a directory of a fixed name, made if it is missing.
CallMkdirTemp_fixedName(c) ==
    /\ conv[c].pc = "MkdirTemp"
    /\ temp' = IF \E d \in temp : d.name = "journal2day1-1" THEN temp
               ELSE temp \cup {[name |-> "journal2day1-1", by |-> c, dirs |-> {}, files |-> {}]}
    /\ conv' = [conv EXCEPT ![c].pc = "createOutputDirs", ![c].tmpDir = "journal2day1-1"]
    /\ UNCHANGED callFrame

\* os.MkdirTemp: a new directory under a name that no directory bears, or
\* an error, after which Convert returns without a deferred RemoveAll.
CallMkdirTemp(c) ==
    /\ conv[c].pc = "MkdirTemp"
    /\ \/ \E name \in tempNames \ {d.name : d \in temp} :
             /\ temp' = temp \cup {[name |-> name, by |-> c, dirs |-> {}, files |-> {}]}
             /\ conv' = [conv EXCEPT ![c].pc = "createOutputDirs", ![c].tmpDir = name]
       \/ /\ temp' = temp
          /\ conv' = [conv EXCEPT ![c].pc = "done", ![c].result = "err"]
    /\ UNCHANGED callFrame

\* createOutputDirs: MkdirAll of tmpDir/photos and of tmpDir/videos.
CallCreateOutputDirs(c) ==
    /\ conv[c].pc = "createOutputDirs"
    /\ dirOf(c) # {}
    /\ temp' = update(conv[c].tmpDir, LAMBDA d : [d EXCEPT !.dirs = @ \cup {"photos", "videos"}])
    /\ conv' = [conv EXCEPT ![c].pc = "convertEntries",
                            ![c].made = @ \cup {"photos", "videos"},
                            ![c].accesses = @ \cup access(c, "MkdirAll")]
    /\ UNCHANGED callFrame

\* createOutputDirs fails at the MkdirAll of photos, or of videos when
\* photos is made: Convert returns the error and the deferred RemoveAll runs.
CallCreateOutputDirsFail(c) ==
    /\ conv[c].pc = "createOutputDirs"
    /\ dirOf(c) # {}
    /\ \/ /\ temp' = temp
          /\ conv' = [conv EXCEPT ![c].pc = "RemoveAll", ![c].result = "err"]
       \/ /\ temp' = update(conv[c].tmpDir, LAMBDA d : [d EXCEPT !.dirs = @ \cup {"photos"}])
          /\ conv' = [conv EXCEPT ![c].pc = "RemoveAll", ![c].result = "err",
                                  ![c].made = @ \cup {"photos"},
                                  ![c].accesses = @ \cup access(c, "MkdirAll")]
    /\ UNCHANGED callFrame

\* processAsset: copyMediaFile writes the media file under tmpDir, or fails
\* before it has created the destination and the asset is dropped.
CallCopyMediaFile(c) ==
    /\ conv[c].pc = "convertEntries"
    /\ conv[c].todo # <<>>
    /\ dirOf(c) # {}
    /\ \/ /\ temp' = update(conv[c].tmpDir, LAMBDA d : [d EXCEPT !.files = @ \cup {conv[c].todo[1]}])
          /\ conv' = [conv EXCEPT ![c].todo = Tail(@),
                                  ![c].written = @ \cup {conv[c].todo[1]},
                                  ![c].accesses = @ \cup access(c, "Create")]
       \/ /\ temp' = temp
          /\ conv' = [conv EXCEPT ![c].todo = Tail(@)]
    /\ UNCHANGED callFrame

\* writeJSON: os.WriteFile of tmpDir/<journalName>.json.
CallWriteJSON(c) ==
    /\ conv[c].pc = "convertEntries"
    /\ conv[c].todo = <<>>
    /\ dirOf(c) # {}
    /\ temp' = update(conv[c].tmpDir, LAMBDA d : [d EXCEPT !.files = @ \cup {jsonPath}])
    /\ conv' = [conv EXCEPT ![c].pc = "createZipArchive",
                            ![c].written = @ \cup {jsonPath},
                            ![c].accesses = @ \cup access(c, "WriteFile")]
    /\ UNCHANGED callFrame

\* createZipArchive: os.Create(dstPath), then filepath.Walk lists tmpDir.
CallZipCreate(c) ==
    /\ conv[c].pc = "createZipArchive"
    /\ \E d \in dirOf(c) :
          conv' = [conv EXCEPT ![c].pc = "Walk",
                               ![c].walk = SetToSortedSeq(d.files),
                               ![c].accesses = @ \cup access(c, "Walk")]
    /\ UNCHANGED <<temp, callFrame>>

\* addFileToZip: os.Open of the file under tmpDir and the copy into the archive.
CallAddFileToZip(c) ==
    /\ conv[c].pc = "Walk"
    /\ conv[c].walk # <<>>
    /\ \E d \in dirOf(c) : conv[c].walk[1] \in d.files
    /\ conv' = [conv EXCEPT ![c].walk = Tail(@),
                            ![c].members = Append(@, conv[c].walk[1]),
                            ![c].accesses = @ \cup access(c, "Open")]
    /\ UNCHANGED <<temp, callFrame>>

\* The walk is over: Convert returns nil and the deferred RemoveAll runs.
CallReturn(c) ==
    /\ conv[c].pc = "Walk"
    /\ conv[c].walk = <<>>
    /\ conv' = [conv EXCEPT ![c].pc = "RemoveAll", ![c].result = "ok"]
    /\ UNCHANGED <<temp, callFrame>>

\* writeJSON, os.Create of the archive or addFileToZip fails: Convert
\* returns the error and the deferred RemoveAll runs.
CallFail(c) ==
    /\ conv[c].pc \in {"convertEntries", "createZipArchive", "Walk"}
    /\ conv[c].pc = "convertEntries" => conv[c].todo = <<>>
    /\ conv[c].pc = "Walk" => conv[c].walk # <<>>
    /\ conv' = [conv EXCEPT ![c].pc = "RemoveAll", ![c].result = "err"]
    /\ UNCHANGED <<temp, callFrame>>

\* defer os.RemoveAll(tmpDir): the directory of that name goes, with all
\* that is under it.
CallRemoveAll(c) ==
    /\ conv[c].pc = "RemoveAll"
    /\ temp' = {d \in temp : d.name # conv[c].tmpDir}
    /\ conv' = [conv EXCEPT ![c].pc = "done", ![c].accesses = @ \cup access(c, "RemoveAll")]
    /\ UNCHANGED callFrame

NextOverlap ==
    \E c \in Calls :
        \/ CallParseAll(c) \/ CallMkdirTemp(c) \/ CallCreateOutputDirs(c)
        \/ CallCreateOutputDirsFail(c) \/ CallCopyMediaFile(c)
        \/ CallWriteJSON(c) \/ CallZipCreate(c) \/ CallAddFileToZip(c) \/ CallReturn(c)
        \/ CallFail(c) \/ CallRemoveAll(c)

SpecOverlap == InitOverlap /\ [][NextOverlap]_vars

(***************************************************************************)
(* Properties.                                                             *)
(***************************************************************************)
ExcludedKinds == {"map", "activity", "stateOfMind"}

Records(e) == e.Photos \o e.Videos

\* The number of placeholder lines in an entry text.
Placeholders(text) == Cardinality({i \in 1..Len(text) : text[i] = "![](dayone-moment://"})

\* The output entries that exist so far and the one under construction,
\* each with the parsed entry it is made from and the number of its
\* placeholder lines.
Mapped ==
    {[out |-> export[k], src |-> entries[k], lines |-> Placeholders(export[k].Text)] :
        k \in 1..Len(export)}
    \cup (IF pc = "processAssets"
          THEN {[out |-> cur, src |-> entries[ei], lines |-> Len(photoRefs)]}
          ELSE {})

Resolvable(a) == GetResourceFilePath(resources, a.ID) # <<>>

ConvertDone == op = "Convert" /\ pc = "done"

\* C1: in every output entry the orderInEntry values of the photo and video
\* records taken together are exactly 0, 1, ..., k-1.
C1_OrderInEntryGapFree ==
    \A k \in 1..Len(export) :
        LET rs == Records(export[k])
        IN  {rs[i].OrderInEntry : i \in 1..Len(rs)} = 0..(Len(rs) - 1)

\* C2: whenever Convert returns an error, the call has left no file at the
\* output archive path.
C2_NoArchiveOnError ==
    (ConvertDone /\ result = "err") => ~(outFile.exists /\ outFile.by = run)

\* C3: when Convert has returned, the staging directory it created and
\* everything under it is gone, on success and on every error.
C3_StagingRemoved ==
    ConvertDone => (tmpDir # "exists" /\ staging = noStaging)

\* C3 witness: Convert returned an error from createZipArchive, after the
\* staging directory had been created and filled.
C3_Witness ==
    ConvertDone /\ result = "err" /\ tmpDir = "removed" /\ "WriteZip" \in faults

\* C4: an asset of kind map, activity or stateOfMind never gives a photo
\* record, a video record, a placeholder line or a staged media file.
C4_ExcludedNeverOutput ==
    /\ \A m \in Mapped :
          /\ \A i \in 1..Len(Records(m.out)) :
                m.src.Assets[Records(m.out)[i].OrderInEntry + 1].Type \notin ExcludedKinds
          /\ m.lines = Len(m.out.Photos)
    /\ \A f \in staging.files :
          f.path # jsonPath =>
             \E k \in 1..Len(entries) : \E j \in 1..Len(entries[k].Assets) :
                LET a == entries[k].Assets[j]
                IN  /\ a.Type \notin ExcludedKinds
                    /\ Resolvable(a)
                    /\ HasPrefix(f.path, <<"photos", sep, "md5">>) \/ HasPrefix(f.path, <<"videos", sep, "md5">>)
                    /\ HasPrefix(Tail(Tail(f.path)), calculateMD5(resourceOf(a).bytes))

\* C4 witness: processAssets has just passed an asset of an excluded kind
\* whose id has a resource file.
C4_Witness ==
    /\ pc = "processAssets"
    /\ ai > 1
    /\ entries[ei].Assets[ai - 1].Type \in ExcludedKinds
    /\ Resolvable(entries[ei].Assets[ai - 1])

\* C5: Convert returns an error if copying a resolved media file into the
\* staging area failed.
C5_CopyFailureFailsConvert ==
    (ConvertDone /\ dropped > 0) => result = "err"

\* Something other than an asset made this run of Convert fail.
OtherFailure ==
    \/ faults # {}
    \/ ~hasEntries
    \/ ~outParent
    \/ \E i \in 1..Len(entriesDir) :
          ~entriesDir[i].isDir /\ HasSuffix(entriesDir[i].name, dotHTML) /\ ~entriesDir[i].readable

\* C6: an asset id without a resource file does not make Convert fail; the
\* asset gives no record and no placeholder line, and the other assets of
\* the entry are still processed.
C6_MissingResourceDropped ==
    /\ (ConvertDone /\ result = "err") => OtherFailure
    /\ (ConvertDone /\ result = "ok") => Len(export) = Len(entries)
    /\ \A m \in Mapped :
          /\ \A i \in 1..Len(Records(m.out)) :
                Resolvable(m.src.Assets[Records(m.out)[i].OrderInEntry + 1])
          /\ m.lines = Len(m.out.Photos)
    /\ \A k \in 1..Len(export) : \A j \in 1..Len(entries[k].Assets) :
          LET a == entries[k].Assets[j]
          IN  (/\ Resolvable(a)
               /\ a.Type \notin ExcludedKinds
               /\ faults = {}
               /\ resourceOf(a).readable)
              => \E i \in 1..Len(Records(export[k])) : Records(export[k])[i].OrderInEntry = j - 1

\* C6 witness: Convert succeeded on an entry in which an asset without a
\* resource file comes before an asset that gave a record.
C6_Witness ==
    /\ ConvertDone
    /\ result = "ok"
    /\ \E k \in 1..Len(export) : \E j \in 1..Len(entries[k].Assets) :
          /\ ~Resolvable(entries[k].Assets[j])
          /\ entries[k].Assets[j].Type \notin ExcludedKinds
          /\ \E i \in 1..Len(Records(export[k])) : Records(export[k])[i].OrderInEntry >= j

Attachment(r) ==
    [Identifier |-> r.Identifier, Type |-> r.Type, MD5 |-> r.MD5, FileSize |-> r.FileSize,
     OrderInEntry |-> r.OrderInEntry]

Attachments(exp) ==
    [k \in 1..Len(exp) |->
        [photos |-> [i \in 1..Len(exp[k].Photos) |-> Attachment(exp[k].Photos[i])],
         videos |-> [i \in 1..Len(exp[k].Videos) |-> Attachment(exp[k].Videos[i])]]]

\* C7: two runs of Convert on the same export, neither disturbed by an I/O
\* failure, give the same photo and video records in every entry.
C7_SameAttachmentsOnRerun ==
    (ConvertDone /\ run = 2 /\ result = "ok" /\ faults = {} /\ prevExport.faults = {})
        => Attachments(export) = Attachments(prevExport.export)

\* C8: the body of the parsed entry contains the text of every non-empty
\* <p class="p2"> paragraph of the document.
C8_BodyFromP2Paragraphs ==
    (op = "ParseEntry" /\ pc = "done" /\ result = "ok") =>
        \A i \in 1..Len(entriesDir[1].doc) :
            LET n == entriesDir[1].doc[i]
            IN  (n.tag = "p" /\ Contains(n.class, <<"p2">>) /\ extractBodyText(n) # <<>>)
                    => Contains(pe.Body, extractBodyText(n))

\* The dates that the page-header blocks of a document parse to.
HeaderDates(doc) ==
    {parsePageHeaderDate(getTextContent(doc[i])) :
        i \in {j \in 1..Len(doc) : doc[j].tag = "div" /\ Contains(doc[j].class, <<"pageHeader">>)}}
    \ {ZeroTime}

\* C9: the entry date is a parsed page-header date if there is one, else the
\* date of the first asset's metadata if usable, else the date in the file
\* name, else the zero time.
C9_DatePriority ==
    (op = "ParseEntry" /\ pc = "done" /\ result = "ok") =>
        IF HeaderDates(entriesDir[1].doc) # {} THEN pe.Date \in HeaderDates(entriesDir[1].doc)
        ELSE IF extractDateFromAssets(resources, pe.Assets) # {ZeroTime}
             THEN pe.Date \in extractDateFromAssets(resources, pe.Assets)
             ELSE pe.Date = extractDateFromFilename(pe.FilePath)

\* An item of the Entries directory that is a document.
IsDocument(item) ==
    /\ ~item.isDir
    /\ Len(item.name) >= 2
    /\ item.name[Len(item.name) - 1] = "."
    /\ item.name[Len(item.name)] = "html"

Documents == SelectSeq(entriesDir, IsDocument)

\* C10: ParseAll returns one entry for each non-directory *.html item of the
\* Entries directory, in listing order, and an empty sequence without error
\* when there is no such item.
C10_OneEntryPerDocument ==
    (op = "ParseAll" /\ pc = "done") =>
        /\ result = "ok" =>
              /\ Len(entries) = Len(Documents)
              /\ \A k \in 1..Len(entries) : entries[k].FilePath = entryPath(Documents[k].name)
        /\ (hasEntries /\ Documents = <<>>) => (result = "ok" /\ entries = <<>>)

\* C10 witness: ParseAll returned entries from a listing that also holds a
\* directory named *.html and a file of another extension.
C10_Witness ==
    /\ op = "ParseAll"
    /\ pc = "done"
    /\ result = "ok"
    /\ Len(entries) >= 2
    /\ \E i \in 1..Len(entriesDir) : entriesDir[i].isDir /\ HasSuffix(entriesDir[i].name, dotHTML)
    /\ \E i \in 1..Len(entriesDir) : ~entriesDir[i].isDir /\ ~HasSuffix(entriesDir[i].name, dotHTML)

\* The documents of the Entries directory that cannot be opened or read.
BadDocuments == {i \in 1..Len(entriesDir) : IsDocument(entriesDir[i]) /\ ~entriesDir[i].readable}

FirstBadDocument == CHOOSE i \in BadDocuments : \A j \in BadDocuments : i <= j

\* C11: when ParseEntry fails for a document, ParseAll returns an error that
\* names that document and no entries; the entries parsed before it are
\* discarded and no later document is parsed; Convert then returns an error
\* without having created a staging directory or an output file.
C11_ParseAllOrNothing ==
    (op \in {"ParseAll", "Convert"} /\ hasEntries /\ BadDocuments # {}) =>
        /\ fi <= FirstBadDocument
        /\ tmpDir = "none"
        /\ staging = noStaging
        /\ ~outFile.exists
        /\ pc = "done" =>
              /\ result = "err"
              /\ entries = <<>>
              /\ fi = FirstBadDocument
              /\ err = parseError(<< [msg |-> "failed to parse entry",
                                      arg |-> entriesDir[FirstBadDocument].name],
                                     [msg |-> "failed to open file", arg |-> <<>>] >> \o sysError)
              /\ op = "Convert" => err[1].msg = "failed to parse entries"

\* C11 witness: Convert has returned the error of a document that stands
\* between two documents that can be parsed.
C11_Witness ==
    /\ ConvertDone
    /\ result = "err"
    /\ BadDocuments # {}
    /\ \E i, j \in 1..Len(entriesDir) :
          /\ i < FirstBadDocument
          /\ FirstBadDocument < j
          /\ IsDocument(entriesDir[i]) /\ entriesDir[i].readable
          /\ IsDocument(entriesDir[j]) /\ entriesDir[j].readable

\* The archive members whose name lies under the directory dir.
MembersUnder(dir) == {i \in 1..Len(outFile.members) : HasPrefix(outFile.members[i].name, <<dir>>)}

\* The JSON document stored in the archive.
ArchivedJSON ==
    LET i == CHOOSE j \in 1..Len(outFile.members) : outFile.members[j].name = jsonPath
    IN  outFile.members[i].bytes[1]

\* C12: a successful Convert writes one output entry per parsed document, in
\* the order of ParseAll; an entry without attachment has no photos and no
\* videos field in the JSON; and when no entry has an attachment the archive
\* holds the <journalName>.json member and nothing under photos/ or videos/.
C12_OneOutputEntryPerDocument ==
    (ConvertDone /\ result = "ok") =>
        /\ Len(export) = Len(entries)
        /\ \A k \in 1..Len(export) : export[k].CreationDate = Format(entries[k].Date)
        /\ \E i \in 1..Len(outFile.members) : outFile.members[i].name = jsonPath
        /\ ArchivedJSON = MarshalIndent(export)
        /\ Len(ArchivedJSON.entries) = Len(entries)
        /\ \A k \in 1..Len(export) :
              Records(export[k]) = <<>> =>
                  {"photos", "videos"} \cap DOMAIN ArchivedJSON.entries[k] = {}
        /\ (\A k \in 1..Len(export) : Records(export[k]) = <<>>) =>
              (MembersUnder("photos") = {} /\ MembersUnder("videos") = {})

\* C12 without disturbance: the same when no I/O operation of the run failed.
C12_Undisturbed == (faults = {}) => C12_OneOutputEntryPerDocument

\* C13: a set progress callback is invoked once per entry with
\* (current, total), current running 1, 2, ..., total, and the invocation
\* with current = i is made when entry i has been mapped; without a callback
\* nothing is invoked.
C13_ProgressAfterEachEntry ==
    /\ \A j \in 1..Len(calls) :
          /\ calls[j].current = j
          /\ calls[j].total = Len(entries)
          /\ calls[j].mapped >= j
    /\ (ConvertDone /\ result = "ok" /\ onProgress) => Len(calls) = Len(entries)
    /\ ~onProgress => calls = <<>>

\* C13 as the code has it: the invocation with current = i is made when
\* the entries before entry i have been mapped, and entry i has not.
C13_ProgressBeforeEachEntry ==
    /\ \A j \in 1..Len(calls) :
          /\ calls[j].current = j
          /\ calls[j].total = Len(entries)
          /\ calls[j].mapped = j - 1
    /\ (ConvertDone /\ result = "ok" /\ onProgress) => Len(calls) = Len(entries)
    /\ ~onProgress => calls = <<>>

\* The asset an attachment record of the mapped entry m was made from.
AssetOf(m, r) == m.src.Assets[r.OrderInEntry + 1]

\* C14: the type of an attachment record is "jpeg" when the asset extension
\* is "jpg" in any letter case, else the extension in lower case; the staged
\* file of the record carries the same type as its extension.
C14_TypeIsNormalizedExtension ==
    \A m \in Mapped : \A i \in 1..Len(Records(m.out)) :
        LET r   == Records(m.out)[i]
            ext == AssetOf(m, r).Extension
        IN  /\ r.Type = IF ToLower(ext) = <<"jpg">> THEN <<"jpeg">> ELSE ToLower(ext)
            /\ tmpDir = "exists" =>
                  \E f \in staging.files : HasSuffix(f.path, r.MD5 \o <<".">> \o r.Type)

\* C14 witness: a record of type jpeg was made from an asset whose extension
\* is JPG in capitals, and its file is staged.
C14_Witness ==
    /\ tmpDir = "exists"
    /\ \E m \in Mapped : \E i \in 1..Len(m.out.Photos) :
          /\ AssetOf(m, m.out.Photos[i]).Extension = <<"JPG">>
          /\ m.out.Photos[i].Type = <<"jpeg">>
          /\ \E f \in staging.files : HasSuffix(f.path, <<".", "jpeg">>)

\* C15: the kind of the asset decides the record type: a video record comes
\* from an asset of kind video only, a photo record from an asset of another
\* kind only, whatever the file extension.
C15_KindDeterminesRecord ==
    \A m \in Mapped :
        /\ \A i \in 1..Len(m.out.Videos) : AssetOf(m, m.out.Videos[i]).Type = "video"
        /\ \A i \in 1..Len(m.out.Photos) : AssetOf(m, m.out.Photos[i]).Type # "video"

\* C15 as the code has it: the extension of the asset decides the record
\* type, and no kind outside the excluded ones is rejected.
C15_ExtensionDeterminesRecord ==
    \A m \in Mapped :
        /\ \A i \in 1..Len(m.out.Videos) :
              ToLower(AssetOf(m, m.out.Videos[i]).Extension) \in {<<"mov">>, <<"mp4">>, <<"m4v">>, <<"avi">>}
        /\ \A i \in 1..Len(m.out.Photos) :
              ToLower(AssetOf(m, m.out.Photos[i]).Extension) \notin {<<"mov">>, <<"mp4">>, <<"m4v">>, <<"avi">>}

\* filepath.ToSlash: the path written with forward slashes.
ToSlash(path) == [i \in 1..Len(path) |-> IF path[i] = "\\" THEN "/" ELSE path[i]]

\* The archive under construction against the staging tree it is made
\* from: member i is the i-th regular file of the walk, under the name name(path).
ArchiveFollowsWalk(name(_)) ==
    pc = "Walk" =>
        LET files == WalkFiles(staging.files)
        IN  /\ Len(outFile.members) + Len(walk) = Len(files)
            /\ Len(files) = Cardinality(staging.files)
            /\ \A i \in 1..Len(outFile.members) :
                  /\ outFile.members[i].name = name(files[i])
                  /\ outFile.members[i].bytes = stagedBytes(files[i])
                  /\ outFile.members[i].name \notin {<<"photos">>, <<"videos">>}

\* C18: the archive holds one member for every regular file under the
\* staging directory and none for a directory, in walk order, each named by
\* the file's path relative to the staging root with forward slashes,
\* whatever the separator of the host is.
C18_MembersNamedWithSlashes == ArchiveFollowsWalk(ToSlash)

\* C18 as the code has it: each member is named by the relative path as
\* filepath.Rel returns it, with the separator of the host.
C18_MembersNamedWithHostSeparator == ArchiveFollowsWalk(LAMBDA path : path)

\* All records of the given field ("Photos" or "Videos") in the output, each
\* with the bytes of the resource file its asset resolves to.
RecordsOf(field) ==
    UNION {{[r |-> export[k][field][i],
             bytes |-> resourceOf(entries[k].Assets[export[k][field][i].OrderInEntry + 1]).bytes] :
               i \in 1..Len(export[k][field])} : k \in 1..Len(export)}

\* The members of the archive under dir/ are those of the records rs: one
\* member dir/<md5>.<type> with the bytes of the resource file per record.
MembersMatchRecords(dir, rs) ==
    /\ \A x \in rs :
          \E i \in 1..Len(outFile.members) :
              /\ outFile.members[i].name = <<dir, "/">> \o x.r.MD5 \o <<".">> \o x.r.Type
              /\ outFile.members[i].bytes = x.bytes
    /\ Cardinality({i \in 1..Len(outFile.members) : HasPrefix(outFile.members[i].name, <<dir, "/">>)})
           = Cardinality({<<x.r.MD5, x.r.Type>> : x \in rs})

\* C16: after a successful Convert the archive holds videos/<md5>.<type> for
\* every video record and photos/<md5>.<type> for every photo record, with
\* the bytes of the backing resource file, and as many members under videos/
\* (photos/) as there are distinct (md5, type) pairs among the video (photo)
\* records.
C16_MediaMembersMatchRecords ==
    (ConvertDone /\ result = "ok") =>
        /\ MembersMatchRecords("videos", RecordsOf("Videos"))
        /\ MembersMatchRecords("photos", RecordsOf("Photos"))

\* C16 without disturbance: the same on a host whose separator is the
\* slash when no I/O operation of the run failed.
C16_Undisturbed == (faults = {} /\ sep = "/") => C16_MediaMembersMatchRecords

\* The placeholder line of a photo record.
PlaceholderLine(r) == <<"![](dayone-moment://">> \o r.Identifier \o <<")">>

\* C17: the entry text is the non-empty parts among the heading "# " +
\* title, the body and the placeholder lines joined by a newline, joined by
\* a blank line; there is one placeholder line per photo record, in record
\* order, naming the record's identifier, which is the asset id without
\* dashes in capitals; an entry without title, body and photo has the empty
\* text and is emitted all the same.
C17_EntryText ==
    /\ \A k \in 1..Len(export) :
          LET e       == entries[k]
              photos  == export[k].Photos
              heading == IF e.Title = <<>> THEN <<>> ELSE <<"#", " ">> \o e.Title
              lines   == Join([i \in 1..Len(photos) |-> PlaceholderLine(photos[i])], <<"\n">>)
              parts   == SelectSeq(<<heading, e.Body, lines>>, LAMBDA part : part # <<>>)
          IN  /\ export[k].Text = Join(parts, <<"\n", "\n">>)
              /\ Placeholders(export[k].Text) = Len(photos)
              /\ \A i \in 1..Len(photos) :
                    photos[i].Identifier
                       = ToUpper(SelectSeq(entries[k].Assets[photos[i].OrderInEntry + 1].ID,
                                           LAMBDA a : a # "-"))
    /\ (ConvertDone /\ result = "ok") => Len(export) = Len(entries)

\* C17 witness: Convert has written an entry with title, body and a photo
\* whose asset id has a dash, and an entry with the empty text.
C17_Witness ==
    /\ ConvertDone
    /\ result = "ok"
    /\ \E k \in 1..Len(export) :
          /\ entries[k].Title # <<>>
          /\ entries[k].Body # <<>>
          /\ Len(export[k].Photos) = 1
          /\ Contains(entries[k].Assets[1].ID, <<"-">>)
          /\ export[k].Text = <<"#", " ", "T", "\n", "\n", "B", "\n", "C", "\n", "\n",
                                "![](dayone-moment://", "A", "1", ")">>
    /\ \E k \in 1..Len(export) : export[k].Text = <<>>

\* C19: when the parent directory of the output path does not exist, Convert
\* returns an error, leaves no file at the output path and removes its
\* staging directory.
C19_MissingOutputParent ==
    ~outParent =>
        /\ ~outFile.exists
        /\ ConvertDone =>
              /\ result = "err"
              /\ tmpDir # "exists"
              /\ staging = noStaging

\* C19 witness: Convert has staged an export with a media file and returned
\* the error of os.Create for an output path in a missing directory.
C19_Witness ==
    /\ ConvertDone
    /\ ~outParent
    /\ result = "err"
    /\ err = Wrap(sysError, "failed to create ZIP file")
    /\ tmpDir = "removed"
    /\ \E k \in 1..Len(export) : Records(export[k]) # <<>>

\* The instant 2001-01-01T00:00:00Z plus x.d days and x.s seconds.
EpochPlus(x) == [d |-> DaysFromCivil(2001, 1, 1) + x.d, s |-> x.s]

\* C20: CocoaTimestampToTime(s) is 2001-01-01T00:00:00Z plus s seconds to
\* the whole second, for negative and for very large s as well, and exactly
\* that instant for s = 0.
C20_EpochPlusSeconds ==
    (op = "CocoaTimestampToTime" /\ pc = "done") => instant = EpochPlus(timestamp)

\* C20 as the code has it: the same for the offsets whose nanoseconds fit
\* into an int64, some 292 years on either side of the epoch.
C20_EpochPlusSecondsInRange ==
    (/\ op = "CocoaTimestampToTime"
     /\ pc = "done"
     /\ LessEq(timestamp, maxDuration)
     /\ LessEq(AddSeconds(minDuration, 1), timestamp))
        => instant = EpochPlus(timestamp)

ParseEntryDone == op = "ParseEntry" /\ pc = "done" /\ result = "ok"

\* The blocks of a document that processDivElement hands to parseGridItem
\* and that carry an id: the blocks the assets of the entry are made from.
AssetBlocks(doc) ==
    SelectSeq(doc, LAMBDA n : /\ n.tag = "div"
                              /\ ~Contains(n.class, <<"pageHeader">>)
                              /\ ~Contains(n.class, <<"title">>)
                              /\ Contains(n.class, <<"gridItem">>)
                              /\ n.id # <<>>)

\* The vocabulary of markers in its fixed order, each with its kind.
markerOrder ==
    << <<"assetType_photo", "photo">>, <<"assetType_livePhoto", "photo">>,
       <<"assetType_video", "video">>, <<"assetType_genericMap", "map">>,
       <<"assetType_motionActivity", "activity">>, <<"assetType_audio", "audio">>,
       <<"assetType_stateOfMind", "stateOfMind">> >>

\* The kind of the earliest marker of the vocabulary that occurs in class.
FirstMarkerKind(class) ==
    LET hits == {i \in 1..Len(markerOrder) : Contains(class, <<markerOrder[i][1]>>)}
    IN  IF hits = {} THEN "unknown"
        ELSE markerOrder[CHOOSE i \in hits : \A j \in hits : i <= j][2]

\* C21: the kind of an asset is the kind of the earliest marker, in the
\* order photo, live-photo, video, map, motion-activity, audio,
\* state-of-mind, that occurs in the class attribute of its block, and
\* "unknown" when none occurs; several markers always give the earliest.
C21_FirstMarkerWins ==
    ParseEntryDone =>
        LET blocks == AssetBlocks(entriesDir[1].doc)
        IN  \A j \in 1..Len(pe.Assets) :
                j <= Len(blocks) => pe.Assets[j].Type = FirstMarkerKind(blocks[j].class)

\* C21 as the code has it: the kind is that of some marker that occurs in
\* the class attribute, the earliest one when a single kind occurs.
C21_SomeMarkerWins ==
    ParseEntryDone =>
        LET blocks == AssetBlocks(entriesDir[1].doc)
        IN  \A j \in 1..Len(pe.Assets) :
                j <= Len(blocks) =>
                    LET kinds == {markerOrder[i][2] :
                                     i \in {k \in 1..Len(markerOrder) :
                                               Contains(blocks[j].class, <<markerOrder[k][1]>>)}}
                    IN  /\ kinds = {} => pe.Assets[j].Type = "unknown"
                        /\ kinds # {} => pe.Assets[j].Type \in kinds
                        /\ Cardinality(kinds) = 1 => pe.Assets[j].Type = FirstMarkerKind(blocks[j].class)

\* C22: every asset ParseEntry returns has an extension that is empty or in
\* lower case and without a leading dot, whether it came from an img/video
\* source of the document or from the lookup in the resources directory.
C22_ExtensionLowercase ==
    ParseEntryDone =>
        \A j \in 1..Len(pe.Assets) :
            LET ext == pe.Assets[j].Extension
            IN  /\ ext = ToLower(ext)
                /\ ext # <<>> => ext[1] # "."

\* C22 as the code has it: the extension is the suffix of the source's or the
\* resource file's name after its last dot, in the letter case of the name.
C22_ExtensionAsWritten ==
    ParseEntryDone =>
        \A j \in 1..Len(pe.Assets) :
            LET a == pe.Assets[j]
            IN  /\ a.FilePath = <<>> => a.Extension = <<>>
                /\ a.FilePath # <<>> => <<".">> \o a.Extension = Ext(a.FilePath)

\* A body-text block: a div that processDivElement takes for its bodyText
\* marker, no earlier case of the dispatch claiming it.
IsBodyBlock(n) ==
    /\ n.tag = "div"
    /\ Contains(n.class, <<"bodyText">>)
    /\ ~Contains(n.class, <<"pageHeader">>)
    /\ ~Contains(n.class, <<"title">>)
    /\ ~Contains(n.class, <<"gridItem">>)

\* The text nodes, each trimmed, the blank ones left out, one per line.
RECURSIVE JoinedLines(_)
JoinedLines(texts) ==
    IF texts = <<>> THEN <<>>
    ELSE LET line == TrimSpace(texts[1])
             rest == JoinedLines(Tail(texts))
         IN  IF line = <<>> THEN rest
             ELSE IF rest = <<>> THEN line
             ELSE line \o <<"\n">> \o rest

\* The text of the last body-text block among nodes whose text is not
\* empty, and the empty text when there is none.
RECURSIVE LastBody(_)
LastBody(nodes) ==
    IF nodes = <<>> THEN <<>>
    ELSE LET n == nodes[Len(nodes)]
         IN  IF IsBodyBlock(n) /\ JoinedLines(n.text) # <<>> THEN JoinedLines(n.text)
             ELSE LastBody(SubSeq(nodes, 1, Len(nodes) - 1))

\* C23: the body of the entry is the extracted text of the last body-text
\* block in document order whose extracted text is not empty; a body-text
\* block with empty text never clears the body; the extracted text is the
\* trimmed, non-blank text nodes under the block joined by newlines.
C23_LastNonEmptyBody ==
    (op = "ParseEntry" /\ pc \in {"extractFromNode", "done"} /\ result # "err") =>
        pe.Body = LastBody(SubSeq(entriesDir[1].doc, 1, ni - 1))

\* C23 witness: ParseEntry has returned the text of the second of two
\* body-text blocks with text, which an empty body-text block follows.
C23_Witness ==
    /\ ParseEntryDone
    /\ entriesDir[1].doc = <<bodyOther, bodyFull, bodyEmpty>>
    /\ pe.Body = <<"B", "\n", "C">>

\* The blocks of a document whose class attribute contains the gridItem
\* marker and whose id attribute is not empty.
GridBlocksWithId(doc) ==
    SelectSeq(doc, LAMBDA n : n.tag = "div" /\ Contains(n.class, <<"gridItem">>) /\ n.id # <<>>)

\* The assets of the entry are made one by one from blocks, in their order.
AssetsAre(blocks) ==
    /\ Len(pe.Assets) = Len(blocks)
    /\ \A j \in 1..Len(blocks) : pe.Assets[j].ID = blocks[j].id

\* C24: the assets of the entry are exactly the blocks whose class attribute
\* contains the gridItem marker and whose id is not empty, one asset per
\* block in document order, whatever other markers (pageHeader, title) the
\* class attribute contains; a gridItem block without id gives no asset.
C24_OneAssetPerGridBlock ==
    ParseEntryDone => AssetsAre(GridBlocksWithId(entriesDir[1].doc))

\* C24 as the code has it: the same for the gridItem blocks whose class
\* attribute contains neither pageHeader nor title.
C24_OneAssetPerDispatchedGridBlock ==
    ParseEntryDone => AssetsAre(AssetBlocks(entriesDir[1].doc))

\* A call that has a staging directory and has not yet returned.
Staging(c) == conv[c].tmpDir # "none" /\ conv[c].pc # "done"

\* C25: of two Convert calls that overlap, each has a staging directory of
\* its own, distinct from the other's; every file operation of a call falls
\* into the directory the call itself made; the directory of a call holds
\* what the call put there until the call itself removes it on return; a
\* directory that was there before is left alone.
C25_StagingDirectoryOwned ==
    /\ \A c, o \in DOMAIN conv : (c # o /\ Staging(c) /\ Staging(o)) => conv[c].tmpDir # conv[o].tmpDir
    /\ \A c \in DOMAIN conv :
          /\ \A a \in conv[c].accesses : a.by = c /\ a.dir \notin a.others
          /\ Staging(c) =>
                \E d \in temp :
                    /\ d.name = conv[c].tmpDir
                    /\ d.by = c
                    /\ d.dirs = conv[c].made
                    /\ d.files = conv[c].written
          /\ conv[c].pc = "done" => ~\E d \in temp : d.by = c
          /\ conv[c].pc = "Walk" =>
                \A i \in 1..Len(conv[c].members) : conv[c].members[i] \in conv[c].written
    /\ \A d \in temp : d.by = 0 => d = leftover
    /\ \A d, e \in temp : d.name = e.name => d = e

\* C25 witness: one call has returned and removed its staging directory
\* while the other was archiving from its own, which still holds the files
\* of the same names next to a directory that was there before.
C25_Witness ==
    /\ conv # <<>>
    /\ conv[1].pc = "done"
    /\ conv[1].result = "ok"
    /\ Len(conv[1].members) = 2
    /\ \E a \in conv[1].accesses : a.kind = "RemoveAll" /\ a.others # {}
    /\ conv[2].pc = "Walk"
    /\ Len(conv[2].members) = 1
    /\ conv[2].written = {jsonPath, mediaPaths[1]}
    /\ conv[1].written = conv[2].written
    /\ leftover \in temp

\* The extension of the resource file GetResourceFilePath resolves for the
\* asset: the file whose bytes are checksummed and copied.
ResolvedExtension(a) == TrimPrefix(Ext(resourceOf(a).name), <<".">>)

VideoExtensions == {<<"mov">>, <<"mp4">>, <<"m4v">>, <<"avi">>}

\* C26: the type of every attachment record, the extension of its staged
\* file and the choice between photos/ and videos/ follow the extension of
\* the resource file whose bytes were checksummed and copied; the extension
\* the parser took from the document's img/video source never disagrees
\* with that file.
C26_TypeFromResolvedFile ==
    \A m \in Mapped :
        /\ \A i \in 1..Len(Records(m.out)) :
              LET r    == Records(m.out)[i]
                  fext == ToLower(ResolvedExtension(AssetOf(m, r)))
              IN  /\ ToLower(AssetOf(m, r).Extension) = fext
                  /\ r.Type = IF fext = <<"jpg">> THEN <<"jpeg">> ELSE fext
        /\ \A i \in 1..Len(m.out.Videos) :
              ToLower(ResolvedExtension(AssetOf(m, m.out.Videos[i]))) \in VideoExtensions
        /\ \A i \in 1..Len(m.out.Photos) :
              ToLower(ResolvedExtension(AssetOf(m, m.out.Photos[i]))) \notin VideoExtensions

\* C26 as the code has it: the same for the assets whose recorded source is
\* the file the id resolves to, as it is when the block has no usable
\* img/video source and the parser looked the file up by id.
C26_TypeFromResolvedFileWhenSourceIsFile ==
    \A m \in Mapped :
        \A i \in 1..Len(Records(m.out)) :
            LET r    == Records(m.out)[i]
                a    == AssetOf(m, r)
                fext == ToLower(ResolvedExtension(a))
            IN  Base(a.FilePath) = resourceOf(a).name =>
                    /\ ToLower(a.Extension) = fext
                    /\ r.Type = IF fext = <<"jpg">> THEN <<"jpeg">> ELSE fext
                    /\ (\E k \in 1..Len(m.out.Videos) : m.out.Videos[k] = r) <=> fext \in VideoExtensions

\* The archive member is the media file of the record r: its name is
\* dir/<md5>.<type> and its bytes are complete, having that md5.
MemberOf(member, dir, r) ==
    /\ member.name = <<dir, sep>> \o r.MD5 \o <<".">> \o r.Type
    /\ calculateMD5(member.bytes) = r.MD5

\* C27: in the archive of a successful Convert every member under photos/
\* or videos/ is the media file of a photo or video record of the output,
\* with the complete bytes of that md5; a copy that failed part-way leaves
\* no unreferenced or truncated media file in the archive.
C27_MediaMembersReferenced ==
    (ConvertDone /\ result = "ok") =>
        \A i \in 1..Len(outFile.members) :
            LET member == outFile.members[i]
            IN  /\ member.name[1] = "photos" =>
                      \E k \in 1..Len(export) : \E j \in 1..Len(export[k].Photos) :
                          MemberOf(member, "photos", export[k].Photos[j])
                /\ member.name[1] = "videos" =>
                      \E k \in 1..Len(export) : \E j \in 1..Len(export[k].Videos) :
                          MemberOf(member, "videos", export[k].Videos[j])

\* C27 as the code has it: the same when no copy of the run failed after it
\* had created its destination.
C27_MediaMembersReferencedWithoutCopyFailure ==
    "Copy" \notin faults => C27_MediaMembersReferenced

\* The files of the listing named exactly <id>.<ext>, metadata files apart.
OwnFiles(res, id) ==
    {i \in 1..Len(res) : /\ Len(res[i].name) = Len(id) + 2
                         /\ HasPrefix(res[i].name, id \o <<".">>)
                         /\ res[i].name[Len(res[i].name)] # "json"}

ResolveDone == op = "GetResourceFilePath" /\ pc = "done" /\ faults = {}

\* C28: when the resources directory, which can be listed, holds a
\* non-metadata file named exactly <id>.<ext>, GetResourceFilePath(id)
\* returns that file, never the file of an asset whose id the requested id
\* is a prefix of; two distinct ids that each have their own file resolve to
\* distinct files.
C28_ResolvesOwnFile ==
    (ResolveDone /\ OwnFiles(resources, uuid) # {}) =>
        /\ \E i \in OwnFiles(resources, uuid) : resourcePath = <<"Resources", "/">> \o resources[i].name
        /\ \A other \in Uuids \ {uuid} :
              OwnFiles(resources, other) # {} => GetResourceFilePath(resources, other) # resourcePath

\* C28 as the code has it: the call returns the first file of the listing,
\* metadata files apart, whose name begins with the id; that is the id's own
\* file when no name that begins with the id comes before it in the listing.
C28_ResolvesFirstPrefixMatch ==
    ResolveDone =>
        LET hits == {i \in 1..Len(resources) :
                        /\ SubSeq(resources[i].name, 1, Len(uuid)) = uuid
                        /\ resources[i].name[Len(resources[i].name)] # "json"}
        IN  /\ hits = {} => resourcePath = <<>>
            /\ hits # {} =>
                  \E i \in hits : /\ \A j \in hits : i <= j
                                  /\ resourcePath = <<"Resources", "/">> \o resources[i].name
                                  /\ hits = OwnFiles(resources, uuid) => i \in OwnFiles(resources, uuid)

\* The blocks of the document that the walk has passed.
Walked == SubSeq(entriesDir[1].doc, 1, ni - 1)

ParseEntryWalking == op = "ParseEntry" /\ pc \in {"extractFromNode", "done"} /\ result # "err"

\* C29: once a page-header block whose text matches an accepted format has
\* been passed, the date of the entry is a date parsed from a page-header
\* block: a later page-header block that matches no format does not reset
\* it, and no fallback to asset metadata or to the file name is taken.
C29_HeaderDateKept ==
    (ParseEntryWalking /\ HeaderDates(Walked) # {}) => pe.Date \in HeaderDates(Walked)

\* The page-header blocks among nodes, in document order.
PageHeaders(nodes) ==
    SelectSeq(nodes, LAMBDA n : n.tag = "div" /\ Contains(n.class, <<"pageHeader">>))

\* C29 as the code has it: while the walk goes on, the date is what the
\* last page-header block passed parses to, the zero time when it matches
\* no format.
C29_LastHeaderDecides ==
    (op = "ParseEntry" /\ pc = "extractFromNode" /\ PageHeaders(Walked) # <<>>) =>
        pe.Date = parsePageHeaderDate(getTextContent(PageHeaders(Walked)[Len(PageHeaders(Walked))]))

\* C30: within one output entry the identifiers of the photo and video
\* records taken together are pairwise distinct, so that a placeholder line
\* names one record only, also for blocks that repeat an id or whose ids
\* differ in dashes or letter case only.
C30_IdentifiersDistinct ==
    \A m \in Mapped :
        LET rs == Records(m.out)
        IN  \A i, j \in 1..Len(rs) : i # j => rs[i].Identifier # rs[j].Identifier

\* An id without its dashes, letter case set aside.
Folded(id) == ToLower(SelectSeq(id, LAMBDA a : a # "-"))

\* C30 as the code has it: two records of an entry have the same identifier
\* exactly when the ids of their blocks are equal up to dashes and letter
\* case.
C30_IdentifiersDistinctUpToFolding ==
    \A m \in Mapped :
        LET rs == Records(m.out)
        IN  \A i, j \in 1..Len(rs) :
                (rs[i].Identifier = rs[j].Identifier)
                    <=> (Folded(AssetOf(m, rs[i]).ID) = Folded(AssetOf(m, rs[j]).ID))

====
